---- MODULE Spec2Model ----
(***************************************************************************)
(* A model of the ChainMind ranking scripts: the DefiLlama ranking scripts *)
(* (fees, revenue, prediction market), the DappBay category scripts        *)
(* (ecosystem, fulleco), the Dune prediction-market adapter and the DappBay *)
(* DOM-table scrapers.                                                     *)
(*                                                                         *)
(* Text is modelled as a tuple of code points (so that Python's string     *)
(* order, lower(), replace(" ", "") and the "in" test can be computed):    *)
(* "DeFi" is <<68, 101, 70, 105>>.  A missing / null / empty text is <<>>  *)
(* (every place modelled here tests text by truthiness only).              *)
(***************************************************************************)
EXTENDS Integers, Sequences, FiniteSets, TLC

VARIABLES
    script,        \* which script's run_logic is running
    json_output,   \* run_logic(json_output=...)
    pc,            \* position of run_logic
    fetch_raised,  \* whether the source request / page navigation raised
    response,      \* what the source returned (API rows or DOM rows)
    grouped_data,  \* fetch_*_data: the dict of merged entries, in insertion order
    protocols,     \* the list run_logic holds (the leaderboard)
    data,          \* the per-category dict run_logic holds (ecosystem, fulleco, dune)
    slots,         \* create_composite_image: the placements written to the document
    caption,       \* get_caption_text: the numbered items of the caption
    stdout,        \* what run_logic printed in JSON mode
    logo_requests, \* the logo URLs requested with requests.get, in order
    browser,       \* the browser of the call: "none", "open" or "closed"
    attempts,      \* requests.get calls the ranking fetch sent to the DefiLlama API
    template_file, \* what TEMPLATE_FILE.exists() answered: "unknown" before the call
    args,          \* social hype run_logic: its arguments post and force
    last_post,     \* the time in last_post_template.txt, None when it has none
    posts,         \* the posts made to the external service
    returned,      \* social hype run_logic: "" until it returns, then its value
    exception      \* the exception that escaped the call, "" when none did

vars == <<script, json_output, pc, fetch_raised, response, grouped_data,
          protocols, data, slots, caption, stdout, logo_requests, browser,
          attempts, template_file, args, last_post, posts, returned,
          exception>>

-----------------------------------------------------------------------------
(* Bounds of the model *)

\* longest DefiLlama response whose records are drawn freely from the pool
MaxProtocols == 3
\* longest DefiLlama response of records with pairwise distinct slugs
MaxWide == 14
\* the length of a response made of records without any key
MaxKeyless == 2

-----------------------------------------------------------------------------
(* Python values *)

\* p.get(field) of a missing or null numeric field
None == -1

NoText == <<>>

Min(a, b) == IF a < b THEN a ELSE b

\* s[:n]
Take(s, n) == SubSeq(s, 1, Min(n, Len(s)))

Range(s) == {s[i] : i \in 1..Len(s)}

\* Python's str < str: lexicographic on code points
RECURSIVE StrLess(_, _)
StrLess(a, b) ==
    IF b = <<>> THEN FALSE
    ELSE IF a = <<>> THEN TRUE
    ELSE IF Head(a) # Head(b) THEN Head(a) < Head(b)
    ELSE StrLess(Tail(a), Tail(b))

\* str.lower() on ASCII text
Lower(s) == [i \in 1..Len(s) |-> IF s[i] >= 65 /\ s[i] <= 90 THEN s[i] + 32 ELSE s[i]]

\* str.replace(" ", "")
RECURSIVE RemoveSpaces(_)
RemoveSpaces(s) ==
    IF s = <<>> THEN <<>>
    ELSE IF Head(s) = 32 THEN RemoveSpaces(Tail(s))
    ELSE <<Head(s)>> \o RemoveSpaces(Tail(s))

\* sub in s
Contains(s, sub) ==
    \E i \in 0..(Len(s) - Len(sub)) : SubSeq(s, i + 1, i + Len(sub)) = sub

\* a or b, on text
Or(a, b) == IF a # NoText THEN a ELSE b

-----------------------------------------------------------------------------
(* The browser of a call: "async with async_playwright() as p:
   browser = await p.chromium.launch(...)" *)

\* a block exit that leaves the browser as it is
ContextExitKeepsBrowser(b) == b

\* leaving the "async with async_playwright()" block, normally or by an
\* exception, stops the Playwright driver, and with it a browser that the
\* block launched and has not closed
ContextExit(b) == IF b = "open" THEN "closed" ELSE b

\* "await browser.close()"
Close(b) == "closed"

\* the browser after a block that launches it, runs steps that are not
\* guarded by try/except and closes it as its last statement: the close is
\* reached only when no step raised
BrowserAfterUnguarded(raised) ==
    ContextExit(IF raised THEN "open" ELSE Close("open"))

\* the browser after a block whose steps are inside try/except (or
\* try/finally) and whose close follows on every path
BrowserAfterGuarded == ContextExit(Close("open"))

\* the rendering steps "set_content, wait_for_timeout, screenshot" of a
\* compositor either pass or raise
RenderOutcomes == {"ok", "raises"}

\* "if TEMPLATE_FILE.exists(): ... else: print("[WARN] ...")": the template
\* is embedded, or a plain background takes its place
TemplateChecks == {"present", "absent"}

\* the template a compositor finds: either answer in a run of the revenue
\* script; the other compositors make the same check and draw the same
\* plain background without it, and are run with the template in place
RunsCompositor == {"revenue"}
TemplateChecksOf(s) == IF s \in RunsCompositor THEN TemplateChecks ELSE {"present"}

-----------------------------------------------------------------------------
(* The DefiLlama ranking scripts: fees, revenue, prediction market *)

RankingScripts == {"fees", "revenue", "prediction"}

\* top_protocols = valid_protocols[:10]; "if i >= 10: break"; protocols[:10]
Limit == 10

\* prediction market: "bsc_tvl > 100"; fees and revenue: "fees > 0"
TvlThreshold == 100

Threshold(s) == IF s = "prediction" THEN TvlThreshold ELSE 0

PredictionCategory == <<80, 77>>   \* stands for "Prediction Market"
DexsCategory == <<68, 101, 120>>   \* "Dex"
Unknown == <<85, 110, 107>>        \* stands for "Unknown"

\* The records a response is made of.  A DefiLlama protocol is identified by
\* its slug; its descriptive fields are fixed per slug:
\*   slug 1  name "P S"  (no displayName), a child of the parent
\*   slug 2  name "ps",  displayName "Ps", a child of the parent
\*   slug i  name "W<ii>"
\* slug 7 is not a prediction market, every slug divisible by 3 has no logo.
ProtocolName(i) ==
    IF i = 1 THEN <<80, 32, 83>>
    ELSE IF i = 2 THEN <<112, 115>>
    ELSE <<87, 48 + (i \div 10), 48 + (i % 10)>>

ProtocolDisplayName(i) == IF i = 2 THEN <<80, 115>> ELSE NoText

Protocol(parent, i, metric) ==
    [ parentProtocol |-> parent,
      slug           |-> <<"slug", i>>,
      name           |-> ProtocolName(i),
      displayName    |-> ProtocolDisplayName(i),
      logo           |-> IF i % 3 = 0 THEN NoText ELSE <<108, 48 + (i % 10)>>,
      category       |-> IF i = 7 THEN DexsCategory ELSE PredictionCategory,
      metric         |-> metric,
      change         |-> i ]

Parent == <<"parent", 1>>

\* the metric values of the freely drawn records: missing, or one of
\* the values MetricSteps above the script's threshold
MetricSteps == {1, 2}

Metrics(s) == {None} \cup {Threshold(s) + k : k \in MetricSteps}

\* the two children of the parent report any of the metric values; the
\* record of slug 3, which is alone under its key, reports none or the
\* smallest one
ProtocolPool(s) ==
    {Protocol(Parent, 1, m) : m \in Metrics(s)} \cup
    {Protocol(Parent, 2, m) : m \in Metrics(s)} \cup
    {Protocol(NoText, 3, m) : m \in {None, Threshold(s) + 1}}

\* n records with pairwise distinct slugs and no parent; their metrics
\* repeat with the period of MetricSteps, so that ties occur; the record
\* of slug 5 reports a metric at the threshold and that of slug 6 reports
\* none
WideResponse(s, n) ==
    [i \in 1..n |->
        Protocol(NoText, i,
                 IF i = 5 THEN Threshold(s)
                 ELSE IF i = 6 THEN None
                 ELSE Threshold(s) + 1 + (i % Cardinality(MetricSteps)))]

\* records that carry neither a parentProtocol nor a slug: both
\* p.get("parentProtocol") and p.get("slug") answer None for them
KeylessProtocol(i, metric) ==
    [Protocol(NoText, i, metric) EXCEPT !.slug = NoText]

KeylessPool(s) ==
    {KeylessProtocol(i, Threshold(s) + k) : i \in {1, 2, 4}, k \in MetricSteps}

Responses(s) ==
    UNION {[1..n -> ProtocolPool(s)] : n \in 0..MaxProtocols}
    \cup {WideResponse(s, n) : n \in 0..MaxWide}
    \cup [1..MaxKeyless -> KeylessPool(s)]

GroupKeySlugFirst(p) == Or(p.slug, p.parentProtocol)

\* "group_key = p.get("parentProtocol") or p.get("slug")"
GroupKey(p) == Or(p.parentProtocol, p.slug)

\* fees, revenue: p.get("displayName") or p.get("name", "Unknown");
\* prediction market: p.get("name", "Unknown")
DisplayName(s, p) ==
    IF s = "prediction" THEN (IF p.name = NoText THEN Unknown ELSE p.name)
    ELSE Or(p.displayName, IF p.name = NoText THEN Unknown ELSE p.name)

\* the filter in front of the fold: the metric is present and above the
\* threshold (and, for the prediction market script, the category matches)
Usable(s, p) ==
    /\ s = "prediction" => p.category = PredictionCategory
    /\ p.metric # None
    /\ p.metric > Threshold(s)

IndexOfKey(acc, k) ==
    IF \E i \in 1..Len(acc) : acc[i].key = k
    THEN CHOOSE i \in 1..Len(acc) : acc[i].key = k
    ELSE 0

\* "if group_key not in grouped_data: grouped_data[group_key] = {...}"
NewEntry(s, p) ==
    [ key        |-> GroupKey(p),
      name       |-> DisplayName(s, p),
      logo       |-> p.logo,
      category   |-> p.category,
      metric     |-> 0,
      change     |-> 0,
      max_metric |-> -1,
      slug       |-> IF s = "prediction" THEN p.slug ELSE NoText ]

UpdatesMetadataOnTie(e, p) == p.metric >= e.max_metric

\* "if fees > grouped_data[group_key]["max_fees"]"
UpdatesMetadata(e, p) == p.metric > e.max_metric

AccumulateLast(e, p) == p.metric

\* "grouped_data[group_key]["fees"] += fees"
Accumulate(e, p) == e.metric + p.metric

FoldIntoUpdatingSlug(s, e, p) ==
    LET summed == [e EXCEPT !.metric = Accumulate(e, p)]
    IN  IF UpdatesMetadata(e, p)
        THEN [summed EXCEPT !.max_metric = p.metric,
                            !.name = DisplayName(s, p),
                            !.logo = p.logo,
                            !.category = p.category,
                            !.change = p.change,
                            !.slug = IF s = "prediction" THEN p.slug ELSE NoText]
        ELSE summed

\* the body of the loop for one usable record, on its entry
FoldInto(s, e, p) ==
    LET summed == [e EXCEPT !.metric = Accumulate(e, p)]
    IN  IF UpdatesMetadata(e, p)
        THEN [summed EXCEPT !.max_metric = p.metric,
                            !.name = DisplayName(s, p),
                            !.logo = p.logo,
                            !.category = p.category,
                            !.change = p.change]
        ELSE summed

\* one iteration of "for p in protocols"
FoldStep(s, acc, p) ==
    IF ~Usable(s, p) THEN acc
    ELSE LET i == IndexOfKey(acc, GroupKey(p))
         IN  IF i = 0
             THEN Append(acc, FoldInto(s, NewEntry(s, p), p))
             ELSE [acc EXCEPT ![i] = FoldInto(s, acc[i], p)]

\* the whole loop: grouped_data after the records of ps, in insertion order
RECURSIVE Fold(_, _)
Fold(s, ps) ==
    IF ps = <<>> THEN <<>>
    ELSE FoldStep(s, Fold(s, SubSeq(ps, 1, Len(ps) - 1)), ps[Len(ps)])

\* list.sort(key=lambda x: x["fees"], reverse=True): stable, descending
InsertDesc(sorted, e) ==
    LET n == Cardinality({i \in 1..Len(sorted) : sorted[i].metric >= e.metric})
    IN  SubSeq(sorted, 1, n) \o <<e>> \o SubSeq(sorted, n + 1, Len(sorted))

RECURSIVE SortDesc(_)
SortDesc(seq) ==
    IF seq = <<>> THEN <<>>
    ELSE InsertDesc(SortDesc(SubSeq(seq, 1, Len(seq) - 1)), seq[Len(seq)])

\* what fetch_*_data returns for a response: fees and revenue cut the sorted
\* list to the top 10, the prediction market script returns all of it
Cut(s, sorted) == IF s = "prediction" THEN sorted ELSE Take(sorted, Limit)

FetchResult(s, ps) == Cut(s, SortDesc(Fold(s, ps)))

\* fetch_fees_data, fetch_revenue_data, fetch_prediction_market_data: the
\* one requests.get(url, timeout=30) of the function raises (the function
\* prints the error and returns []), or the response is folded, sorted and
\* returned
FetchRankingData ==
    /\ pc = "start"
    /\ script \in RankingScripts
    /\ \/ /\ fetch_raised' = TRUE
          /\ response' = <<>>
          /\ grouped_data' = <<>>
          /\ protocols' = <<>>
       \/ \E resp \in Responses(script) :
            /\ fetch_raised' = FALSE
            /\ response' = resp
            /\ grouped_data' = Fold(script, resp)
            /\ protocols' = FetchResult(script, resp)
    /\ attempts' = attempts + 1
    /\ pc' = "fetched"
    /\ UNCHANGED <<script, json_output, data, slots, caption, stdout, exception,
                   logo_requests, browser, template_file, args, last_post, posts,
                   returned>>

-----------------------------------------------------------------------------
(* The prediction market script: the DappBay users map and merge_data *)

NA == <<78, 47, 65>>   \* "N/A"

\* what the DappBay page yields: nothing (the scrape failed or found no
\* rows), or rows {name, users}; "PS" matches the protocol "P S" only
\* through the key without spaces
DappbayScrapes ==
    { <<>>,
      << [name |-> <<80, 83>>, users |-> <<49, 50, 75>>],
         [name |-> NoText,     users |-> <<55>>] >> }

\* dappbay_map.get(k): "dapp_map[key] = d; dapp_map[d['name'].lower()] = d"
\* for every named row, a later row replacing an earlier one
MapGet(dapps, k) ==
    LET hits == {i \in 1..Len(dapps) :
                    /\ dapps[i].name # NoText
                    /\ \/ RemoveSpaces(Lower(dapps[i].name)) = k
                       \/ Lower(dapps[i].name) = k}
    IN  IF hits = {} THEN {}
        ELSE {dapps[CHOOSE i \in hits : \A j \in hits : j <= i]}

\* the body of "for item in llama_data"
MergeItem(item, dapps) ==
    LET name  == Lower(item.name)
        key1  == RemoveSpaces(name)
        match == IF MapGet(dapps, name) # {} THEN MapGet(dapps, name)
                 ELSE MapGet(dapps, key1)
        users == IF match = {} THEN NA ELSE (CHOOSE d \in match : TRUE).users
    IN  [ key |-> item.key, name |-> item.name, logo |-> item.logo,
          category |-> item.category, metric |-> item.metric,
          change |-> item.change, max_metric |-> item.max_metric,
          slug |-> item.slug, users |-> users, vol |-> NA ]

merge_data(llama_data, dapps) ==
    [i \in 1..Len(llama_data) |-> MergeItem(llama_data[i], dapps)]

-----------------------------------------------------------------------------
(* The two-column compositor of the ranking scripts *)

\* what requests.get(url, timeout=10) can do: answer 200, raise, run into
\* the timeout (which raises as well), answer with another status
LogoOutcomes == {"ok", "exception", "timeout", "status"}

\* f"data:{content_type};base64,{b64}" of the image behind url
DataUri(url) == <<100>> \o url

\* a resolver that returns the text of the failure in place of the asset
LogoOrFailureText(url, outcome) ==
    IF url = NoText THEN NoText
    ELSE IF outcome = "ok" THEN DataUri(url) ELSE <<33>>

\* fetch_logo_as_base64(url) under the outcome of its request
fetch_logo_as_base64(url, outcome) ==
    IF url = NoText THEN NoText
    ELSE IF outcome = "ok" THEN DataUri(url) ELSE NoText

\* "for p in protocols: p["logoBase64"] = fetch_logo_as_base64(p["logo"])";
\* the prediction market script does it for protocols[:10] only
LogosFetched(s, ps) == IF s = "prediction" THEN Min(Len(ps), Limit) ELSE Len(ps)

ResolveLogos(s, ps, outcome) ==
    [i \in 1..Len(ps) |->
        IF i <= LogosFetched(s, ps)
        THEN [f \in DOMAIN ps[i] \cup {"logoBase64"} |->
                 IF f = "logoBase64"
                 THEN fetch_logo_as_base64(ps[i].logo, outcome)
                 ELSE ps[i][f]]
        ELSE ps[i]]

\* the URLs requests.get was called with: one call for every entry that has
\* a logo, in list order
LogoRequests(s, ps) ==
    LET urls == [i \in 1..LogosFetched(s, ps) |-> ps[i].logo]
    IN  SelectSeq(urls, LAMBDA u : u # NoText)

\* Y_CENTERS_LEFT, Y_CENTERS_RIGHT: five rows per column
ColumnSize == 5

\* protocol.get("logoBase64") or protocol.get("logo") or ""
ImgSrc(p) ==
    Or(IF "logoBase64" \in DOMAIN p THEN p.logoBase64 ELSE NoText, p.logo)

\* one iteration of "for i, protocol in enumerate(protocols)" for rank i
\* (0-based): the column, the row and the text written at that slot
Placement(i, p) ==
    LET is_left == i < ColumnSize
        row_idx == IF is_left THEN i ELSE i - ColumnSize
    IN  [ rank   |-> i,
          column |-> IF is_left THEN 0 ELSE 1,
          row    |-> row_idx,
          img    |-> ImgSrc(p),
          name   |-> p.name,
          metric |-> p.metric ]

\* "if i >= 10: break"
SlotCount == Limit

\* the same loop without the break
RenderedRanksNoBreak(ps) == 0..(Len(ps) - 1)

\* the ranks the loop renders before it breaks
RenderedRanks(ps) == {i \in 0..(Len(ps) - 1) : i < SlotCount}

\* Y_POSITIONS_LEFT[row_idx] / Y_POSITIONS_RIGHT[row_idx] raise IndexError
\* for a row outside the column
CompositeRaises(ps) ==
    \E i \in RenderedRanks(ps) : Placement(i, ps[i + 1]).row >= ColumnSize

CompositeSlots(ps) ==
    [k \in 1..Cardinality(RenderedRanks(ps)) |-> Placement(k - 1, ps[k])]

-----------------------------------------------------------------------------
(* run_logic of the ranking scripts *)

\* get_caption_text: "for i, p in enumerate(protocols[:10])", one numbered
\* item per entry
CaptionItems(ps) ==
    [i \in 1..Len(Take(ps, Limit)) |->
        [number |-> i, name |-> ps[i].name, metric |-> ps[i].metric]]

JsonStart == [line |-> "---JSON_START---"]
JsonEnd == [line |-> "---JSON_END---"]

\* json.dumps({"error": ...})
ErrorEnvelope(msg) ==
    [line |-> "json", fields |-> {"error"}, error |-> msg,
     caption |-> <<>>, data |-> <<>>]

\* json.dumps({"image": ..., "caption": ..., "timestamp": ..., ...})
ResultEnvelope(fields, cap, d) ==
    [line |-> "json", fields |-> fields, error |-> "",
     caption |-> cap, data |-> d]

\* (the revenue file repeats one closing line of this json.dumps call, line
\* 406; its run_logic is modelled as it reads without the repeated line)
\* the list a ranking script puts into its envelope: "data": protocols
\* (fees, prediction market), "protocols": [... for p in protocols[:10]]
\* (revenue)
EnvelopeData(s, ps) ==
    IF s = "revenue"
    THEN [i \in 1..Len(Take(ps, Limit)) |->
             [name |-> ps[i].name, category |-> ps[i].category,
              metric |-> ps[i].metric, change |-> ps[i].change]]
    ELSE ps

EnvelopeFields(s) ==
    IF s = "revenue" THEN {"image", "caption", "timestamp", "interval", "protocols"}
    ELSE IF s = "fees" THEN {"image", "caption", "timestamp", "interval", "data"}
    ELSE {"image", "caption", "timestamp", "data"}

\* "if not protocols: ... return": the error envelope in JSON mode
RankingFetchFailed ==
    /\ pc = "fetched"
    /\ script \in RankingScripts
    /\ protocols = <<>>
    /\ stdout' = IF json_output
                 THEN <<JsonStart, ErrorEnvelope("Failed to fetch data"), JsonEnd>>
                 ELSE <<>>
    /\ pc' = "done"
    /\ UNCHANGED <<script, attempts, template_file, args, last_post, posts, returned, json_output, fetch_raised, response, grouped_data,
                   protocols, data, slots, caption, exception,
                   logo_requests, browser>>

\* prediction market: fetch_dappbay_users_map, then merge_data
MergeUsers ==
    /\ pc = "fetched"
    /\ script = "prediction"
    /\ protocols # <<>>
    /\ \E dapps \in DappbayScrapes : protocols' = merge_data(protocols, dapps)
    /\ browser' = BrowserAfterGuarded
    /\ pc' = "merged"
    /\ UNCHANGED <<script, attempts, template_file, args, last_post, posts, returned, json_output, fetch_raised, response, grouped_data,
                   data, slots, caption, stdout, exception,
                   logo_requests>>

\* the list is ready for rendering and output
Ready ==
    /\ script \in RankingScripts
    /\ protocols # <<>>
    /\ pc = (IF script = "prediction" THEN "merged" ELSE "fetched")

\* create_composite_image(protocols, ...).  run_logic of the revenue script
\* calls it; in the fees and prediction market scripts the call in
\* run_logic is commented out, and the action is a direct call of the
\* function on the fetched list, after which nothing is printed.  An
\* exception of the rendering steps leaves create_composite_image, and
\* run_logic of the revenue script does not catch it.
CreateCompositeImage ==
    /\ Ready
    /\ \E template \in TemplateChecksOf(script) : template_file' = template
    /\ \E outcome \in LogoOutcomes, render \in RenderOutcomes :
          LET resolved == ResolveLogos(script, protocols, outcome)
          IN  /\ protocols' = resolved
              /\ logo_requests' = LogoRequests(script, protocols)
              /\ IF CompositeRaises(resolved)
                 THEN /\ exception' = "IndexError"
                      /\ pc' = "done"
                      /\ UNCHANGED <<slots, browser>>
                 ELSE /\ slots' = CompositeSlots(resolved)
                      /\ browser' = BrowserAfterUnguarded(render = "raises")
                      /\ IF render = "raises"
                         THEN exception' = "RenderError" /\ pc' = "done"
                         ELSE /\ pc' = (IF script = "revenue" THEN "composed"
                                                             ELSE "done")
                              /\ UNCHANGED exception
    /\ UNCHANGED <<script, attempts, args, last_post, posts, returned, json_output, fetch_raised, response, grouped_data,
                   data, caption, stdout>>

\* the caption and the output of run_logic
RankingOutput ==
    /\ script \in RankingScripts
    /\ IF script = "revenue" THEN pc = "composed" ELSE Ready
    /\ caption' = CaptionItems(protocols)
    /\ stdout' = IF json_output
                 THEN <<JsonStart,
                        ResultEnvelope(EnvelopeFields(script), CaptionItems(protocols),
                                       EnvelopeData(script, protocols)),
                        JsonEnd>>
                 ELSE <<>>
    /\ pc' = "done"
    /\ UNCHANGED <<script, attempts, template_file, args, last_post, posts, returned, json_output, fetch_raised, response, grouped_data,
                   protocols, data, slots, exception,
                   logo_requests, browser>>

-----------------------------------------------------------------------------
(* The ecosystem script: fetch_ecosystem_data *)

\* CATEGORIES, in dict order
EcoCategories == <<"defi", "ai", "social", "games">>

\* CATEGORIES[cat]["filter_text"]: "DeFi", "AI", "Social", "GameFi"
FilterText(cat) ==
    IF cat = "defi" THEN <<68, 101, 70, 105>>
    ELSE IF cat = "ai" THEN <<65, 73>>
    ELSE IF cat = "social" THEN <<83, 111, 99, 105, 97, 108>>
    ELSE <<71, 97, 109, 101, 70, 105>>

TextGames == <<103, 97, 109, 101, 115>>         \* "games"
TextGamefi == <<103, 97, 109, 101, 102, 105>>   \* "gamefi"
ZeroPercent == <<48, 46, 48, 48, 37>>           \* "0.00%"

\* the rows page.evaluate returns (all_dapps): two names, and the category
\* texts "DeFi", "SocialFi" and "Games"; the first name has a logo and a
\* rising change, the second has no logo and a falling change
EcoNames == {<<65, 98>>, <<67, 100>>}

EcoCategoryTexts ==
    { <<68, 101, 70, 105>>,
      <<83, 111, 99, 105, 97, 108, 70, 105>>,
      <<71, 97, 109, 101, 115>> }

EcoDapp(name, category) ==
    [ name     |-> name,
      category |-> category,
      users    |-> <<53, 75>>,
      uc       |-> IF name = <<65, 98>> THEN <<43, 49, 37>> ELSE <<45, 50, 37>>,
      txs      |-> <<57, 75>>,
      tc       |-> ZeroPercent,
      logo     |-> IF name = <<65, 98>> THEN <<47, 47, 108>> ELSE NoText ]

EcoDappPool == {EcoDapp(n, c) : n \in EcoNames, c \in EcoCategoryTexts}

\* per-category cut of fetch_ecosystem_data: "if len(filtered) >= 3: break"
EcoTop == 3

\* longest list of rows the page yields
MaxDapps == 4

EcoPages == UNION {[1..n -> EcoDappPool] : n \in 0..MaxDapps}

\* the condition of the first loop
ExactMatch(target, dapp) ==
    LET dapp_cat == Lower(dapp.category)
    IN  \/ target = dapp_cat
        \/ (target = TextGamefi /\ dapp_cat = TextGames)
        \/ (target = TextGames /\ dapp_cat = TextGamefi)

\* the condition of the second loop: "target_filter in dapp_cat"
PartialMatch(target, dapp) == Contains(Lower(dapp.category), target)

\* first loop: the exact matches in row order, at most three
ExactFill(target, all_dapps) ==
    Take(SelectSeq(all_dapps, LAMBDA d : ExactMatch(target, d)), EcoTop)

\* second loop, over the rows still to visit: a row equal to one already
\* taken is passed over ("if dapp in filtered: continue")
RECURSIVE PartialFill(_, _, _)
PartialFill(target, filtered, rest) ==
    IF rest = <<>> \/ Len(filtered) >= EcoTop THEN filtered
    ELSE IF Head(rest) \notin Range(filtered) /\ PartialMatch(target, Head(rest))
         THEN PartialFill(target, Append(filtered, Head(rest)), Tail(rest))
         ELSE PartialFill(target, filtered, Tail(rest))

Filtered(cat, all_dapps) ==
    LET target == Lower(FilterText(cat))
        exact  == ExactFill(target, all_dapps)
    IN  IF Len(exact) < EcoTop THEN PartialFill(target, exact, all_dapps) ELSE exact

LogoData == <<100, 97, 116, 97>>   \* stands for "data:image/png;base64,..."

\* "results[cat_key].append({...})" for one filtered row; the logo request
\* answers 200 or not
EcoItem(item, logo_ok) ==
    [ name  |-> item.name, users |-> item.users, uc |-> item.uc,
      txs   |-> item.txs,  tc    |-> item.tc,
      logoBase64 |-> IF item.logo # NoText /\ logo_ok THEN LogoData ELSE NoText ]

\* the entry the script fills an empty category with
Placeholder ==
    [ name |-> NA, users |-> NA, uc |-> ZeroPercent, txs |-> NA,
      tc |-> ZeroPercent, logoBase64 |-> NoText ]

\* "if not results[cat_key]: while len(results[cat_key]) < 3: append(N/A)"
PadEmpty(items) == IF items = <<>> THEN [i \in 1..EcoTop |-> Placeholder] ELSE items

\* results[cat_key] at the end of one round of "for cat_key, cat_info"
EcoCategoryResult(cat, all_dapps, logo_ok) ==
    LET filtered == Filtered(cat, all_dapps)
    IN  PadEmpty([i \in 1..Len(filtered) |-> EcoItem(filtered[i], logo_ok)])

EmptyResults == [cat \in Range(EcoCategories) |-> <<>>]

\* fetch_ecosystem_data: navigation or the wait for rows raises (the
\* exception is caught, every category stays empty), or the rows are
\* filtered per category
FetchEcosystemData ==
    /\ pc = "start"
    /\ script = "ecosystem"
    /\ \/ /\ fetch_raised' = TRUE
          /\ response' = <<>>
          /\ data' = EmptyResults
       \/ \E all_dapps \in EcoPages, logo_ok \in BOOLEAN :
            /\ fetch_raised' = FALSE
            /\ response' = all_dapps
            /\ data' = [cat \in Range(EcoCategories) |->
                           EcoCategoryResult(cat, all_dapps, logo_ok)]
    /\ browser' = BrowserAfterGuarded
    /\ pc' = "fetched"
    /\ UNCHANGED <<script, attempts, template_file, args, last_post, posts, returned, json_output, grouped_data, protocols, slots,
                   caption, stdout, exception,
                   logo_requests>>

-----------------------------------------------------------------------------
(* The per-category compositor of the ecosystem and fulleco scripts *)

\* fulleco: CATEGORIES_CONFIG / LAYOUT, in dict order
FullecoCategories == <<"defi", "games", "social", "nfts", "ai", "infra", "rwa">>

\* DEFI_CENTERS = [... for i in range(6)]
DefiCenters == 6

\* get_grid_centers returns three centers; ecosystem: three centers each
GridCenters == 3

LayoutOrder(s) == IF s = "fulleco" THEN FullecoCategories ELSE EcoCategories

\* len(config["centers"])
Centers(s, cat) == IF s = "fulleco" /\ cat = "defi" THEN DefiCenters ELSE GridCenters

\* the list the loop enumerates: data.get(cat_key, []) (fulleco),
\* data.get(cat_key, [])[:3] (ecosystem)
Enumerated(s, items) == IF s = "ecosystem" THEN Take(items, EcoTop) ELSE items

\* "if i >= len(centers): break"
CategoryRendered(s, cat, items) ==
    {i \in 0..(Len(Enumerated(s, items)) - 1) : i < Centers(s, cat)}

\* "cy, cx = centers[i]" raises IndexError beyond the centers
CategoryRaises(s, d) ==
    \E k \in 1..Len(LayoutOrder(s)) :
        \E i \in CategoryRendered(s, LayoutOrder(s)[k], d[LayoutOrder(s)[k]]) :
            i >= Centers(s, LayoutOrder(s)[k])

CategoryPlacements(s, cat, items) ==
    [k \in 1..Cardinality(CategoryRendered(s, cat, items)) |->
        [ category |-> cat, rank |-> k - 1, center |-> k - 1,
          name |-> items[k].name ]]

\* items_html, category after category
RECURSIVE CategorySlotsFrom(_, _, _)
CategorySlotsFrom(s, d, k) ==
    IF k > Len(LayoutOrder(s)) THEN <<>>
    ELSE CategoryPlacements(s, LayoutOrder(s)[k], d[LayoutOrder(s)[k]])
         \o CategorySlotsFrom(s, d, k + 1)

CategorySlots(s, d) == CategorySlotsFrom(s, d, 1)

\* the lists a direct call of fulleco's create_composite_image is given:
\* nd entries for "defi" and ns entries for every other category
MaxDefiItems == 7
MaxCatItems == 4

FullecoItem(cat, i) ==
    [ name |-> <<70, 48 + i>>, users |-> <<53, 75>>,
      uc |-> <<43, 49, 37>>, txs |-> <<57, 75>>, tc |-> ZeroPercent,
      logoBase64 |-> NoText ]

FullecoData(nd, ns) ==
    [cat \in Range(FullecoCategories) |->
        [i \in 1..(IF cat = "defi" THEN nd ELSE ns) |-> FullecoItem(cat, i)]]

\* fulleco: create_composite_image(data, ...), called on its own (run_logic
\* has the call commented out)
ComposeFulleco ==
    /\ pc = "start"
    /\ script = "fulleco"
    /\ \E template \in TemplateChecksOf(script) : template_file' = template
    /\ \E nd \in 0..MaxDefiItems, ns \in 0..MaxCatItems, render \in RenderOutcomes :
          /\ data' = FullecoData(nd, ns)
          /\ IF CategoryRaises(script, FullecoData(nd, ns))
             THEN exception' = "IndexError" /\ UNCHANGED <<slots, browser>>
             ELSE /\ slots' = CategorySlots(script, FullecoData(nd, ns))
                  /\ browser' = BrowserAfterUnguarded(render = "raises")
                  /\ exception' = IF render = "raises" THEN "RenderError" ELSE ""
    /\ pc' = "done"
    /\ UNCHANGED <<script, attempts, args, last_post, posts, returned, json_output, fetch_raised, response, grouped_data,
                   protocols, caption, stdout, logo_requests>>

\* CATEGORIES_CONFIG: "count" of "defi" and of every other category
FullecoDefiCount == 6
FullecoCount == 3

\* fulleco get_caption_text: "for i, item in enumerate(items[:3])"
FullecoCaptionTop == 3

\* fulleco get_caption_text: per category that has items, one numbered
\* line for each of items[:3]
RECURSIVE FullecoCaptionFrom(_, _)
FullecoCaptionFrom(d, k) ==
    IF k > Len(FullecoCategories) THEN <<>>
    ELSE LET cat == FullecoCategories[k]
             items == Take(d[cat], FullecoCaptionTop)
         IN  [i \in 1..Len(items) |->
                 [category |-> cat, number |-> i, name |-> items[i].name]]
             \o FullecoCaptionFrom(d, k + 1)

\* fulleco run_logic: fetch_fulleco_data yields at most "count" rows per
\* category (a category whose page fails keeps an empty list), the
\* compositor call is commented out, then the caption and the output
FullecoRunLogic ==
    /\ pc = "start"
    /\ script = "fulleco"
    /\ \E nd \in 0..FullecoDefiCount, ns \in 0..FullecoCount :
          LET d == FullecoData(nd, ns)
          IN  /\ data' = d
              /\ caption' = FullecoCaptionFrom(d, 1)
              /\ stdout' = IF json_output
                           THEN <<JsonStart,
                                  ResultEnvelope({"image", "caption", "timestamp",
                                                  "data"},
                                                 FullecoCaptionFrom(d, 1), d),
                                  JsonEnd>>
                           ELSE <<>>
    /\ browser' = BrowserAfterGuarded
    /\ pc' = "printed"
    /\ UNCHANGED <<script, attempts, template_file, args, last_post, posts, returned, json_output, fetch_raised, response, grouped_data,
                   protocols, slots, exception, logo_requests>>

\* "if not data" on the dict that fetch_ecosystem_data returns: a dict that
\* has keys is true in Python, whatever its values
NotData(d) == DOMAIN d = {}

\* ecosystem run_logic after the fetch: the error envelope when "not data",
\* otherwise "await create_composite_image(data, ...)"
ComposeEcosystem ==
    /\ pc = "fetched"
    /\ script = "ecosystem"
    /\ IF NotData(data)
       THEN /\ stdout' = IF json_output
                         THEN <<JsonStart, ErrorEnvelope("Failed to fetch data"),
                                JsonEnd>>
                         ELSE <<>>
            /\ pc' = "done"
            /\ UNCHANGED <<slots, exception, browser, template_file>>
       ELSE /\ \E template \in TemplateChecksOf(script) : template_file' = template
            /\ IF CategoryRaises(script, data)
               THEN /\ exception' = "IndexError"
                    /\ pc' = "done"
                    /\ UNCHANGED <<slots, browser>>
               ELSE \E render \in RenderOutcomes :
                      /\ slots' = CategorySlots(script, data)
                      /\ browser' = BrowserAfterUnguarded(render = "raises")
                      /\ IF render = "raises"
                         THEN exception' = "RenderError" /\ pc' = "done"
                         ELSE pc' = "composed" /\ UNCHANGED exception
            /\ UNCHANGED stdout
    /\ UNCHANGED <<script, attempts, args, last_post, posts, returned, json_output, fetch_raised, response, grouped_data,
                   protocols, data, caption, logo_requests>>

\* ecosystem get_caption_text: one line per category that has entries,
\* naming data[cat][:3]
RECURSIVE EcoCaptionFrom(_, _)
EcoCaptionFrom(d, k) ==
    IF k > Len(EcoCategories) THEN <<>>
    ELSE LET items == Take(d[EcoCategories[k]], EcoTop)
         IN  (IF items = <<>> THEN <<>>
              ELSE <<[category |-> EcoCategories[k],
                      names |-> [i \in 1..Len(items) |-> items[i].name]]>>)
             \o EcoCaptionFrom(d, k + 1)

\* ecosystem run_logic: the caption and the output; reading the image back
\* can fail, and the except branch prints the error envelope
EcosystemOutput ==
    /\ pc = "composed"
    /\ script = "ecosystem"
    /\ caption' = EcoCaptionFrom(data, 1)
    /\ IF json_output
       THEN \E read_ok \in BOOLEAN :
              stdout' = IF read_ok
                        THEN <<JsonStart,
                               ResultEnvelope({"image", "caption", "timestamp"},
                                              EcoCaptionFrom(data, 1), <<>>),
                               JsonEnd>>
                        ELSE <<JsonStart, ErrorEnvelope("read"), JsonEnd>>
       ELSE stdout' = <<>>
    /\ pc' = "done"
    /\ UNCHANGED <<script, attempts, template_file, args, last_post, posts, returned, json_output, fetch_raised, response, grouped_data,
                   protocols, data, slots, exception,
                   logo_requests, browser>>

-----------------------------------------------------------------------------
(* The Dune adapter: dune_prediction_market_template_fill.py *)

\* the longest freely chosen result of the Dune query
MaxDuneRows == 2
\* the longest result of distinct rows that all carry a volume
MaxWideDune == 7

\* Python truth of a number: None and 0 are false
Truthy(v) == v # None /\ v # 0

\* "a or b or c or d or 0" on numbers
RECURSIVE FirstTruthy(_)
FirstTruthy(vals) ==
    IF vals = <<>> THEN 0
    ELSE IF Truthy(Head(vals)) THEN Head(vals) ELSE FirstTruthy(Tail(vals))

UnknownMarket == <<85, 77>>
General == <<71>>
Crypto == <<67>>

\* one row of the query result, its keys already lower-cased; a key the row
\* does not have is None (numbers) or NoText (texts)
DuneRow(project, volume, vol, users) ==
    [project |-> project, market |-> NoText, question |-> NoText,
     name |-> NoText,
     volume |-> volume, vol |-> vol, amount |-> None, usd |-> None,
     users |-> users, active_users |-> None, traders |-> None, count |-> None,
     category |-> NoText, type |-> NoText]

MarketName(i) == <<81, 48 + (i \div 10), 48 + (i % 10)>>

DuneRowPool ==
    { DuneRow(q, volume, vol, users) :
        q \in {NoText, MarketName(1)}, volume \in {None, 0, 3},
        vol \in {None, 2}, users \in {None, 4} }

WideDuneRows(n) == [i \in 1..n |-> DuneRow(MarketName(i), i, None, 1)]

DuneResults ==
    UNION { [1..n -> DuneRowPool] : n \in 0..MaxDuneRows }
    \cup { WideDuneRows(n) : n \in (MaxDuneRows + 1)..MaxWideDune }

\* the body of "for row in rows": the market appended for one row
vol_val(row) == FirstTruthy(<<row.volume, row.vol, row.amount, row.usd>>)
users_val(row) ==
    FirstTruthy(<<row.users, row.active_users, row.traders, row.count>>)
name_val(row) ==
    Or(Or(Or(Or(row.project, row.market), row.question), row.name),
       UnknownMarket)
cat_val(row) == Or(Or(row.category, row.type), General)

Market(row) ==
    [question |-> name_val(row), volume |-> vol_val(row),
     category |-> cat_val(row), users |-> users_val(row)]

\* data["markets"].sort(key=lambda x: x["volume"], reverse=True): stable
InsertMarket(sorted, m) ==
    LET before == { i \in 1..Len(sorted) : sorted[i].volume >= m.volume }
        k == Cardinality(before)
    IN  SubSeq(sorted, 1, k) \o <<m>> \o SubSeq(sorted, k + 1, Len(sorted))

RECURSIVE SortMarkets(_)
SortMarkets(seq) ==
    IF seq = <<>> THEN <<>>
    ELSE InsertMarket(SortMarkets(SubSeq(seq, 1, Len(seq) - 1)), seq[Len(seq)])

RECURSIVE Total(_, _)
Total(seq, k) == IF k = 0 THEN 0 ELSE Total(seq, k - 1) + seq[k]

get_mock_data ==
    [metrics |-> [total_vol_24h |-> 4500000, total_users_24h |-> 12500,
                  active_markets |-> 84],
     markets |-> [i \in 1..6 |->
                    [question |-> <<77, 48 + i>>,
                     volume |-> <<1200000, 850000, 620000, 410000,
                                  320000, 150000>>[i],
                     category |-> Crypto]]]

DuneDataUnsorted(rows) ==
    LET markets == [i \in 1..Len(rows) |-> Market(rows[i])]
    IN  [metrics |->
           [total_vol_24h |->
              Total([i \in 1..Len(rows) |-> markets[i].volume], Len(rows)),
            total_users_24h |->
              Total([i \in 1..Len(rows) |-> markets[i].users], Len(rows)),
            active_markets |-> Len(rows)],
         markets |-> markets]

DuneData(rows) ==
    LET markets == [i \in 1..Len(rows) |-> Market(rows[i])]
    IN  [metrics |->
           [total_vol_24h |->
              Total([i \in 1..Len(rows) |-> markets[i].volume], Len(rows)),
            total_users_24h |->
              Total([i \in 1..Len(rows) |-> markets[i].users], Len(rows)),
            active_markets |-> Len(rows)],
         markets |-> SortMarkets(markets)]

\* fetch_dune_data: mock data without a client or key, when the API call
\* or the processing of the rows raises (raised), and on an empty result;
\* otherwise the mapped and sorted rows
FetchDuneData ==
    /\ pc = "start"
    /\ script = "dune"
    /\ \/ /\ \E raised \in BOOLEAN : fetch_raised' = raised
          /\ response' = <<>>
          /\ data' = get_mock_data
       \/ \E rows \in DuneResults :
            /\ fetch_raised' = FALSE
            /\ response' = rows
            /\ data' = IF rows = <<>> THEN get_mock_data ELSE DuneData(rows)
    /\ pc' = "fetched"
    /\ UNCHANGED <<script, attempts, template_file, args, last_post, posts, returned, json_output, grouped_data, protocols, slots,
                   caption, stdout, exception,
                   logo_requests, browser>>

\* create_infographic: one card for each of data["markets"][:6]
DuneTop == 6

CreateInfographic ==
    /\ pc = "fetched"
    /\ script = "dune"
    /\ \E template \in TemplateChecksOf(script) : template_file' = template
    /\ slots' = Take(data.markets, DuneTop)
    /\ \E render \in RenderOutcomes :
          /\ browser' = BrowserAfterUnguarded(render = "raises")
          /\ IF render = "raises"
             THEN exception' = "RenderError" /\ pc' = "done"
             ELSE pc' = "composed" /\ UNCHANGED exception
    /\ UNCHANGED <<script, attempts, args, last_post, posts, returned, json_output, fetch_raised, response, grouped_data,
                   protocols, data, caption, stdout, logo_requests>>

\* dune run_logic, "3. Output": the envelope between the markers, or, when
\* reading the image back fails, the bare error object without markers
DuneOutput ==
    /\ pc = "composed"
    /\ script = "dune"
    /\ IF json_output
       THEN \E read_ok \in BOOLEAN :
              stdout' = IF read_ok
                        THEN <<JsonStart,
                               ResultEnvelope({"image", "caption"}, <<>>, <<>>),
                               JsonEnd>>
                        ELSE <<ErrorEnvelope("read")>>
       ELSE stdout' = <<>>
    /\ pc' = "done"
    /\ UNCHANGED <<script, attempts, template_file, args, last_post, posts, returned, json_output, fetch_raised, response, grouped_data,
                   protocols, data, slots, caption, exception,
                   logo_requests, browser>>

-----------------------------------------------------------------------------
(* The DOM-table extraction of dapps_ranking_template_fill.py and
   capture_dappbay.py *)

\* the longest freely chosen table
MaxRows == 3
\* the longest table of distinct named rows
MaxWideRows == 12

Dashes == <<45, 45, 45>>     \* "---"
MinCells == 5                \* "cells.length < 5"
DappsLimit == 10             \* "if (extracted.length >= 10) break"
MinNameLength == 2           \* "name.length < 2"
EnvelopeLimit == 15          \* "data": dapps[:15]

\* one <tr>: the number of its <td> cells, the name text of cells[2] (its
\* first line / its p.ui-text), the text of the row's "a p" element
TableRow(cells, name, link_name) ==
    [cells |-> cells, name |-> name, link_name |-> link_name]

RowName(i) == <<82, 48 + (i \div 10), 48 + (i % 10)>>

TableRowPool ==
    { TableRow(9, <<65, 98>>, NoText),        \* a named row
      TableRow(9, NoText, NoText),            \* no name anywhere
      TableRow(9, NoText, <<67, 100>>),       \* a name in the link only
      TableRow(9, Unknown, NoText),
      TableRow(9, Dashes, NoText),
      TableRow(9, <<88>>, NoText),            \* a name of one character
      TableRow(4, <<69, 102>>, NoText) }      \* a named row of four cells

\* n rows with distinct names; with gaps, every fourth row has no name
WideTable(n, gaps) ==
    [i \in 1..n |-> IF gaps /\ i % 4 = 0 THEN TableRow(9, NoText, NoText)
                    ELSE TableRow(9, RowName(i), NoText)]

Tables ==
    UNION { [1..n -> TableRowPool] : n \in 0..MaxRows }
    \cup { WideTable(n, gaps) : n \in (MaxRows + 1)..MaxWideRows,
                                gaps \in BOOLEAN }

\* dapps: "let name = cells[2]...; if (!name) name = row.querySelector('a p')..."
DappsRowName(row) == Or(row.name, row.link_name)

\* a test that keeps every non-empty name
DappsKeepsAny(name) == name # NoText

\* dapps: "if (name && name !== 'Unknown' && name !== '---')"
DappsKeeps(name) == name # NoText /\ name # Unknown /\ name # Dashes

\* dapps: the "for (let i = 0; i < rows.length; i++)" loop from row i on
RECURSIVE ExtractDapps(_, _, _)
ExtractDapps(rows, i, extracted) ==
    IF i > Len(rows) \/ Len(extracted) >= DappsLimit THEN extracted
    ELSE IF rows[i].cells < MinCells THEN ExtractDapps(rows, i + 1, extracted)
    ELSE IF DappsKeeps(DappsRowName(rows[i]))
         THEN ExtractDapps(rows, i + 1,
                  Append(extracted, [name |-> DappsRowName(rows[i])]))
         ELSE ExtractDapps(rows, i + 1, extracted)

\* capture: "if (!name || name.length < 2) return"
CaptureKeeps(name) == name # NoText /\ Len(name) >= MinNameLength

\* capture: "rows.forEach((row, index) => ...)" from row i on; the rank cell
\* of these rows has no number, so "rank: parseInt(rank) || (index + 1)"
RECURSIVE ExtractCapture(_, _, _)
ExtractCapture(rows, i, results) ==
    IF i > Len(rows) THEN results
    ELSE IF rows[i].cells < MinCells THEN ExtractCapture(rows, i + 1, results)
    ELSE IF CaptureKeeps(rows[i].name)
         THEN ExtractCapture(rows, i + 1,
                  Append(results, [name |-> rows[i].name, rank |-> i]))
         ELSE ExtractCapture(rows, i + 1, results)

Extract(s, rows) ==
    IF s = "dapps" THEN ExtractDapps(rows, 1, <<>>)
    ELSE ExtractCapture(rows, 1, <<>>)

TableScripts == {"dapps", "capture"}

\* fetch_dapps_ranking_data / scrape_ranking_page: the navigation raises
\* (caught, an empty list is returned) or the table is extracted
ExtractTable ==
    /\ pc = "start"
    /\ script \in TableScripts
    /\ \/ /\ fetch_raised' = TRUE
          /\ response' = <<>>
          /\ protocols' = <<>>
       \/ \E rows \in Tables :
            /\ fetch_raised' = FALSE
            /\ response' = rows
            /\ protocols' = Extract(script, rows)
    /\ browser' = IF script = "dapps" THEN BrowserAfterGuarded ELSE browser
    /\ pc' = IF script = "dapps" THEN "fetched" ELSE "done"
    /\ UNCHANGED <<script, attempts, template_file, args, last_post, posts, returned, json_output, grouped_data, data, slots, caption,
                   stdout, exception,
                   logo_requests>>

\* dapps run_logic after the fetch: the error envelope when "not dapps",
\* otherwise the caption of dapps[:10] and the envelope with dapps[:15]
DappsOutput ==
    /\ pc = "fetched"
    /\ script = "dapps"
    /\ IF protocols = <<>>
       THEN /\ stdout' = IF json_output
                         THEN <<JsonStart, ErrorEnvelope("Failed to fetch data"),
                                JsonEnd>>
                         ELSE <<>>
            /\ UNCHANGED caption
       ELSE /\ caption' = [i \in 1..Len(Take(protocols, Limit)) |->
                             [number |-> i, name |-> protocols[i].name]]
            /\ stdout' = IF json_output
                         THEN <<JsonStart,
                                ResultEnvelope(
                                    {"image", "caption", "timestamp", "data"},
                                    [i \in 1..Len(Take(protocols, Limit)) |->
                                       [number |-> i, name |-> protocols[i].name]],
                                    Take(protocols, EnvelopeLimit)),
                                JsonEnd>>
                         ELSE <<>>
    /\ pc' = "done"
    /\ UNCHANGED <<script, attempts, template_file, args, last_post, posts, returned, json_output, fetch_raised, response, grouped_data,
                   protocols, data, slots, exception,
                   logo_requests, browser>>

-----------------------------------------------------------------------------
(* capture_dappbay.py: scrape_all_pages and scrape_all_rankings *)

\* the longest page of the ranking
MaxPageRows == 1
\* "all_dapps = await scrape_all_pages(page, max_pages=3)"
MaxPages == 3

\* one page of the ranking table: the names of its rows, and whether the
\* rank cells of the page hold a number
RankingPage ==
    { [names |-> n, numbered |-> b] :
        n \in UNION {[1..k -> EcoNames] : k \in 0..MaxPageRows},
        b \in BOOLEAN }

\* the pages the site serves, the first page first: the next-page button
\* is enabled while a further page exists
RankingPages == UNION {[1..k -> RankingPage] : k \in 1..MaxPages}

RECURSIVE RowsBefore(_, _)
RowsBefore(pages, p) ==
    IF p <= 1 THEN 0 ELSE RowsBefore(pages, p - 1) + Len(pages[p - 1].names)

\* the rank the site displays for row i of page p
DisplayedRank(pages, p, i) == RowsBefore(pages, p) + i

\* the dicts of one page: "rank: parseInt(rank) || (index + 1)" on the first
\* page (scrape_ranking_page), "rank: parseInt(rank) || 0" on the later
\* pages (scrape_all_pages); row stands for the other fields read from
\* the same table row
PageDapps(pages, p) ==
    [i \in 1..Len(pages[p].names) |->
        [name |-> pages[p].names[i],
         rank |-> IF pages[p].numbered THEN DisplayedRank(pages, p, i)
                  ELSE IF p = 1 THEN i ELSE 0,
         row  |-> <<p, i>>]]

\* scrape_all_pages: the first page, then, "if len(dapps) > 0 and
\* max_pages > 1", the pages 2..max_pages
RECURSIVE MoreDapps(_, _)
MoreDapps(pages, p) ==
    IF p > Len(pages) THEN <<>>
    ELSE PageDapps(pages, p) \o MoreDapps(pages, p + 1)

scrape_all_pages(pages) ==
    IF Len(PageDapps(pages, 1)) > 0
    THEN PageDapps(pages, 1) \o MoreDapps(pages, 2)
    ELSE PageDapps(pages, 1)

\* "if dapp['name'] not in seen: seen.add(...); unique_dapps.append(dapp)"
RECURSIVE UniqueDapps(_, _, _)
UniqueDapps(all_dapps, i, unique_dapps) ==
    IF i > Len(all_dapps) THEN unique_dapps
    ELSE IF \E k \in 1..Len(unique_dapps) :
                unique_dapps[k].name = all_dapps[i].name
         THEN UniqueDapps(all_dapps, i + 1, unique_dapps)
         ELSE UniqueDapps(all_dapps, i + 1, Append(unique_dapps, all_dapps[i]))

\* "unique_dapps.sort(key=lambda x: x.get('rank', 999))": a stable sort
InsertByRank(sorted, d) ==
    LET k == Cardinality({j \in 1..Len(sorted) : sorted[j].rank <= d.rank})
    IN  SubSeq(sorted, 1, k) \o <<d>> \o SubSeq(sorted, k + 1, Len(sorted))

RECURSIVE SortByRank(_)
SortByRank(seq) ==
    IF seq = <<>> THEN <<>>
    ELSE InsertByRank(SortByRank(SubSeq(seq, 1, Len(seq) - 1)), seq[Len(seq)])

\* scrape_all_rankings: the pages are scraped, the debug screenshot is
\* taken outside any try (when it raises, the scraped pages are lost with
\* the call), the browser is closed, and the result is built
ScrapeAllRankings ==
    /\ pc = "start"
    /\ script = "rankings"
    /\ \E shot \in RenderOutcomes :
          /\ browser' = BrowserAfterUnguarded(shot = "raises")
          /\ IF shot = "raises"
             THEN /\ exception' = "PlaywrightError"
                  /\ UNCHANGED <<response, protocols, data>>
             ELSE \E pages \in RankingPages :
                    LET unique_dapps ==
                            UniqueDapps(scrape_all_pages(pages), 1, <<>>)
                    IN  /\ response' = pages
                        /\ protocols' = SortByRank(unique_dapps)
                        /\ data' = [totalCount |-> Len(unique_dapps)]
                        /\ UNCHANGED exception
    /\ pc' = "done"
    /\ UNCHANGED <<script, attempts, template_file, args, last_post, posts, returned, json_output, fetch_raised,
                   grouped_data, slots, caption, stdout, logo_requests>>

-----------------------------------------------------------------------------
(* Browser scrapers: bnb_burn_scrape.py, social_hype_template_fill.py,
   four_meme_rank_fetch.py *)

\* the longest list of tokens a page or API answer holds
MaxTokens == 2

\* where a scraping call can raise: launching the browser, navigating,
\* evaluating the page script
ScrapeOutcomes == {"ok", "launch", "goto", "evaluate"}

\* bnb_burn main: scrape_bnb_burn (launch outside the try; goto, wait and
\* evaluate inside try/except/finally with browser.close() in the finally),
\* then the markers around json.dumps(data); an exception that reaches main
\* is printed to stderr
ScrapeBnbBurn ==
    /\ pc = "start"
    /\ script = "bnb_burn"
    /\ \E outcome \in ScrapeOutcomes :
          /\ fetch_raised' = (outcome # "ok")
          /\ browser' = IF outcome = "launch" THEN ContextExit("none")
                        ELSE BrowserAfterGuarded
          /\ stdout' =
               IF outcome = "launch" THEN <<>>
               ELSE IF outcome = "ok"
                    THEN <<JsonStart,
                           ResultEnvelope({"total_burned", "real_time_burn",
                                           "timestamp"}, <<>>, <<>>),
                           JsonEnd>>
                    ELSE <<JsonStart, ErrorEnvelope(outcome), JsonEnd>>
    /\ pc' = "done"
    /\ UNCHANGED <<script, attempts, template_file, args, last_post, posts, returned, json_output, response, grouped_data, protocols,
                   data, slots, caption, logo_requests, exception>>

\* the longest list of tokens the social hype page yields
MaxHypeTokens == 11

\* the clock, in hours: datetime.now() of the run, and the times the
\* last-post file can hold (None: no file, or a text that is no time)
Now == 100
RateLimitHours == 24
LastPostRecords ==
    {None, Now - 1, Now - (RateLimitHours - 1), Now - RateLimitHours,
     Now - (RateLimitHours + 1)}

\* get_last_post_time: None without a file or when parsing raises
get_last_post_time(record) == record

SkipsWheneverPosting(a, record) == a.post /\ ~a.force

\* "if post and not force: last = get_last_post_time(); if last and
\* datetime.now() - last < timedelta(hours=24): ... return False"
SkippedByRateLimit(a, record) ==
    /\ a.post
    /\ ~a.force
    /\ get_last_post_time(record) # None
    /\ Now - get_last_post_time(record) < RateLimitHours

HypeToken(i) ==
    [symbol |-> <<84, 48 + (i \div 10), 48 + (i % 10)>>,
     name |-> <<84, 48 + (i \div 10), 48 + (i % 10)>>,
     sentimentType |-> <<80>>]

\* social hype run_logic up to the fetch: the rate-limit check, then
\* fetch_hype_data, whose goto, waits and page.evaluate are not guarded and
\* whose "await browser.close()" is the statement after them
FetchHypeData ==
    /\ pc = "start"
    /\ script = "hype"
    /\ IF SkippedByRateLimit(args, last_post)
       THEN /\ returned' = "False"
            /\ pc' = "done"
            /\ UNCHANGED <<fetch_raised, browser, protocols, exception>>
       ELSE /\ \E outcome \in ScrapeOutcomes :
                  /\ fetch_raised' = (outcome # "ok")
                  /\ browser' = IF outcome = "launch" THEN ContextExit("none")
                                ELSE BrowserAfterUnguarded(outcome # "ok")
                  /\ IF outcome = "ok"
                     THEN /\ \E n \in 0..MaxHypeTokens :
                               protocols' = [i \in 1..n |-> HypeToken(i)]
                          /\ pc' = "fetched"
                          /\ UNCHANGED exception
                     ELSE /\ exception' = "PlaywrightError"
                          /\ pc' = "done"
                          /\ UNCHANGED protocols
            /\ UNCHANGED returned
    /\ UNCHANGED <<script, attempts, template_file, args, last_post, posts,
                   json_output, response, grouped_data, data, slots, caption,
                   stdout, logo_requests>>

HypeSlotsOneColumn(tokens) ==
    [k \in 1..Min(Len(tokens), SlotCount) |->
        [rank |-> k - 1, column |-> 0, row |-> k - 1, name |-> tokens[k].name]]

\* social hype create_composite_image: "if i >= 10: break", "col = 0 if i <
\* 5 else 1", "rank_in_col = i if i < 5 else i - 5", y = Y_COORDS[rank_in_col]
HypeSlots(tokens) ==
    [k \in 1..Min(Len(tokens), SlotCount) |->
        LET i == k - 1
        IN  [rank |-> i,
             column |-> IF i < ColumnSize THEN 0 ELSE 1,
             row |-> IF i < ColumnSize THEN i ELSE i - ColumnSize,
             name |-> tokens[k].name]]

\* social hype get_caption_text: one numbered line for each of tokens[:10]
HypeCaption(tokens) ==
    [i \in 1..Len(Take(tokens, Limit)) |-> [number |-> i, name |-> tokens[i].symbol]]

\* what the posting functions do: setup_twitter yields the clients or
\* none, post_to_twitter reports whether the post was made
PostOutcomes == {"no_client", "post_failed", "posted"}

\* update_last_post_time: the time of the run is written to the file
update_last_post_time(record) == Now

UpdatesAlways(outcome) == TRUE

\* "if v1 and post_to_twitter(output_path, v1, v2, tokens)"
PostSucceeded(outcome) == outcome = "posted"

\* social hype run_logic after the fetch: "if not tokens" prints the bare
\* error object in JSON mode and returns False; otherwise the compositor
\* (not guarded), the caption, and: in JSON mode the envelope, or, when
\* reading the image back raises, the bare error object; else, with post,
\* the post and, after a post that succeeded, update_last_post_time; else
\* the dry run
HypeRunLogic ==
    /\ pc = "fetched"
    /\ script = "hype"
    /\ pc' = "done"
    /\ IF protocols = <<>>
       THEN /\ stdout' = IF json_output THEN <<ErrorEnvelope("No data fetched")>>
                         ELSE <<>>
            /\ returned' = "False"
            /\ UNCHANGED <<slots, browser, caption, exception, template_file,
                           last_post, posts>>
       ELSE \E template \in TemplateChecks, render \in RenderOutcomes,
               read_ok \in BOOLEAN, outcome \in PostOutcomes :
            /\ template_file' = template
            /\ slots' = HypeSlots(protocols)
            /\ browser' = BrowserAfterUnguarded(render = "raises")
            /\ IF render = "raises"
               THEN /\ exception' = "RenderError"
                    /\ UNCHANGED <<stdout, caption, last_post, posts, returned>>
               ELSE /\ caption' = HypeCaption(protocols)
                    /\ UNCHANGED exception
                    /\ IF json_output
                       THEN /\ stdout' =
                                 IF read_ok
                                 THEN <<JsonStart,
                                        ResultEnvelope({"image", "caption",
                                                        "timestamp"},
                                                       HypeCaption(protocols), <<>>),
                                        JsonEnd>>
                                 ELSE <<ErrorEnvelope("JSON output failed")>>
                            /\ returned' = IF read_ok THEN "True" ELSE "False"
                            /\ UNCHANGED <<last_post, posts>>
                       ELSE /\ UNCHANGED stdout
                            /\ IF args.post
                               THEN /\ posts' = IF outcome = "posted"
                                                THEN posts + 1 ELSE posts
                                    /\ last_post' =
                                         IF PostSucceeded(outcome)
                                         THEN update_last_post_time(last_post)
                                         ELSE last_post
                                    /\ returned' = IF PostSucceeded(outcome)
                                                   THEN "True" ELSE "False"
                               ELSE /\ returned' = "True"
                                    /\ UNCHANGED <<last_post, posts>>
    /\ UNCHANGED <<script, attempts, args, json_output, fetch_raised, response,
                   grouped_data, protocols, data, logo_requests>>

\* the decimal digits of a natural number
RECURSIVE Digits(_)
Digits(n) == IF n < 10 THEN <<48 + n>> ELSE Digits(n \div 10) \o <<48 + (n % 10)>>

\* item.get(field, 0)
GetOrZero(v) == IF v = None THEN 0 ELSE v

\* one item of data.list in the answer of the four.meme API: its market cap
\* and holders are reported or missing (values below 1000, which the ",.0f"
\* format prints without a separator)
FourMemeItem(i, marketCap, holders) ==
    [name |-> <<70, 48 + i>>, marketCap |-> marketCap, holders |-> holders]

FourMemeItemPool ==
    {FourMemeItem(i, m, h) : i \in {1}, m \in {None, 7}, h \in {None, 3}}

FourMemeAnswers == UNION {[1..n -> FourMemeItemPool] : n \in 0..MaxTokens}

\* processed_tokens.append({...}): "mcap": f"${float(item.get('marketCap', 0)):,.0f}",
\* "holders": f"{int(item.get('holders', 0)):,}"
FourMemeToken(item) ==
    [name |-> item.name,
     mcap |-> <<36>> \o Digits(GetOrZero(item.marketCap)),
     holders |-> Digits(GetOrZero(item.holders))]

\* fetch_four_meme_data: unguarded goto and evaluate; None when the API
\* answer is an error or has a non-zero code; otherwise the processed list
FetchFourMemeData ==
    /\ pc = "start"
    /\ script = "four_meme"
    /\ \E outcome \in ScrapeOutcomes \cup {"api_error"} :
          /\ fetch_raised' = (outcome # "ok")
          /\ browser' = IF outcome = "launch" THEN ContextExit("none")
                        ELSE BrowserAfterUnguarded(outcome \in {"goto", "evaluate"})
          /\ IF outcome = "ok"
             THEN \E list \in FourMemeAnswers :
                    /\ response' = list
                    /\ protocols' = [i \in 1..Len(list) |-> FourMemeToken(list[i])]
                    /\ pc' = "fetched"
                    /\ UNCHANGED exception
             ELSE IF outcome = "api_error"
             THEN pc' = "fetched" /\ UNCHANGED <<response, protocols, exception>>
             ELSE /\ exception' = "PlaywrightError"
                  /\ pc' = "done"
                  /\ UNCHANGED <<response, protocols>>
    /\ UNCHANGED <<script, attempts, template_file, args, last_post, posts, returned, json_output, grouped_data, data, slots, caption,
                   stdout, logo_requests>>

\* the parameters of four_meme's create_composite_image(tokens, output_path,
\* date_str, time_str, interval) and the arguments of its call in run_logic
\* (tokens, output_path, date_str, time_str, timezone, "Ranking")
CompositeParameters == 5
CompositeArguments == 6

\* four_meme run_logic after the fetch: "if not tokens" prints the bare
\* error object in JSON mode; otherwise the call of create_composite_image
\* raises TypeError when the argument count differs from the parameter
\* count, and the caption and output are reached only when it does not
FourMemeRunLogic ==
    /\ pc = "fetched"
    /\ script = "four_meme"
    /\ IF protocols = <<>>
       THEN /\ stdout' = IF json_output THEN <<ErrorEnvelope("No data fetched")>>
                         ELSE <<>>
            /\ UNCHANGED <<exception, slots, browser, caption>>
       ELSE IF CompositeArguments # CompositeParameters
       THEN /\ exception' = "TypeError"
            /\ UNCHANGED <<stdout, slots, browser, caption>>
       ELSE \E render \in RenderOutcomes, read_ok \in BOOLEAN :
            /\ slots' = [i \in 1..Len(protocols) |-> [name |-> protocols[i].name]]
            /\ browser' = BrowserAfterUnguarded(render = "raises")
            /\ IF render = "raises"
               THEN exception' = "RenderError" /\ UNCHANGED <<stdout, caption>>
               ELSE /\ caption' = [i \in 1..Len(protocols) |->
                                     [number |-> i, name |-> protocols[i].name]]
                    /\ IF json_output /\ ~read_ok
                       THEN exception' = "OSError" /\ UNCHANGED stdout
                       ELSE /\ UNCHANGED exception
                            /\ stdout' =
                                 IF json_output
                                 THEN <<JsonStart,
                                        ResultEnvelope({"image", "caption",
                                                        "timestamp"},
                                            [i \in 1..Len(protocols) |->
                                               [number |-> i,
                                                name |-> protocols[i].name]],
                                            <<>>),
                                        JsonEnd>>
                                 ELSE <<>>
    /\ pc' = "done"
    /\ UNCHANGED <<script, attempts, template_file, args, last_post, posts, returned, json_output, fetch_raised, response, grouped_data,
                   protocols, data, logo_requests>>

-----------------------------------------------------------------------------
(* The number formatters *)

Thousand == 1000
Million == 1000000
Billion == 1000000000

\* the values the formatters are applied to: none, zero, and the values on
\* both sides of every threshold
FormatValues ==
    {None, 0, 1, Thousand - 1, Thousand, Million - 1, Million, Billion - 1,
     Billion, 2 * Billion}

\* what a formatter yields: a fixed text, or the value divided by the unit
\* and printed with a number of decimals behind the prefix
Fixed(text) == [fixed |-> text, prefix |-> "", unit |-> "", decimals |-> 0]
Scaled(prefix, unit, decimals) ==
    [fixed |-> "", prefix |-> prefix, unit |-> unit, decimals |-> decimals]

\* fees: format_fees
format_fees(value) ==
    IF value = None \/ value = 0 THEN Fixed("$0")
    ELSE IF value >= Million THEN Scaled("$", "M", 2)
    ELSE IF value >= Thousand THEN Scaled("$", "K", 1)
    ELSE Scaled("$", "", 0)

\* revenue: format_revenue
format_revenue(value) ==
    IF value = None \/ value = 0 THEN Fixed("$0")
    ELSE IF value >= Million THEN Scaled("$", "M", 2)
    ELSE IF value >= Thousand THEN Scaled("$", "K", 1)
    ELSE Scaled("$", "", 0)

\* dune_bnbchain: format_currency
format_currency(value) ==
    IF value = None THEN Fixed("$0")
    ELSE IF value >= Billion THEN Scaled("$", "B", 2)
    ELSE IF value >= Million THEN Scaled("$", "M", 1)
    ELSE IF value >= Thousand THEN Scaled("$", "K", 1)
    ELSE Scaled("$", "", 2)

\* dune_bnbchain: format_number(value)
dune_format_number(value) ==
    IF value = None THEN Fixed("0")
    ELSE IF value >= Million THEN Scaled("", "M", 1)
    ELSE IF value >= Thousand THEN Scaled("", "K", 1)
    ELSE Scaled("", "", 0)

\* prediction market: format_number(value, prefix="$") on a number
format_number(value) ==
    IF value = None \/ value = 0 THEN Fixed("N/A")
    ELSE IF value >= Billion THEN Scaled("$", "B", 2)
    ELSE IF value >= Million THEN Scaled("$", "M", 2)
    ELSE IF value >= Thousand THEN Scaled("$", "K", 1)
    ELSE Scaled("$", "", 0)

Formatters ==
    {"format_fees", "format_revenue", "format_currency", "dune_format_number",
     "format_number"}

\* every formatter applied to one value
ApplyFormatters ==
    /\ pc = "start"
    /\ script = "format"
    /\ \E value \in FormatValues :
          /\ response' = <<value>>
          /\ data' = [format_fees |-> format_fees(value),
                      format_revenue |-> format_revenue(value),
                      format_currency |-> format_currency(value),
                      dune_format_number |-> dune_format_number(value),
                      format_number |-> format_number(value)]
    /\ pc' = "done"
    /\ UNCHANGED <<script, attempts, template_file, args, last_post, posts, returned, json_output, fetch_raised,
                   grouped_data, protocols, slots, caption, stdout, exception,
                   logo_requests, browser>>

-----------------------------------------------------------------------------
(* The colour of a change figure *)

\* the cell texts a change column shows: "+1%", "5%", "-2%", the same fall
\* written with the minus sign U+2212, "0.00%", "-0.00%", the placeholder
\* "-" and the empty text
ChangeFigures ==
    { <<43, 49, 37>>, <<53, 37>>, <<45, 50, 37>>, <<8722, 50, 37>>,
      ZeroPercent, <<45, 48, 46, 48, 48, 37>>, <<45>>, NoText }

HasChar(text, c) == \E i \in 1..Len(text) : text[i] = c

\* dapps create_composite_image: ".replace('%', '').replace('+', '')
\* .replace(U+2212, '-').replace(',', '').strip()"; no figure has outer
\* white space
CleanChange(text) ==
    LET kept == SelectSeq(text, LAMBDA c : c \notin {37, 43, 44})
    IN  [i \in 1..Len(kept) |-> IF kept[i] = 8722 THEN 45 ELSE kept[i]]

\* float(change_str) of a sign, digits and at most one point: "ValueError"
\* when the text is no number, otherwise whether the number is below zero
FloatBelowZero(text) ==
    LET signed == Len(text) > 0 /\ text[1] \in {43, 45}
        body   == IF signed THEN Tail(text) ELSE text
        points == SelectSeq(body, LAMBDA c : c = 46)
        digits == SelectSeq(body, LAMBDA c : c \in 48..57)
    IN  IF Len(digits) = 0 \/ Len(points) > 1
           \/ Len(digits) + Len(points) # Len(body)
        THEN "ValueError"
        ELSE IF text[1] = 45 /\ \E i \in 1..Len(digits) : digits[i] # 48
        THEN "True"
        ELSE "False"

\* dapps create_composite_image: "try: is_neg = float(change_str) < 0;
\* except: is_neg = '-' in dapp.get('change7d', '')" and
\* "change_class = 'negative' if is_neg else ''"
change_class(change7d) ==
    LET below  == FloatBelowZero(CleanChange(change7d))
        is_neg == IF below = "ValueError" THEN HasChar(change7d, 45)
                  ELSE below = "True"
    IN  IF is_neg THEN "negative" ELSE ""

\* ecosystem get_color
get_color(change_str) ==
    IF change_str = NoText \/ change_str = ZeroPercent \/ change_str = <<45>>
    THEN "#888"
    ELSE IF HasChar(change_str, 43) THEN "#22C55E"
    ELSE IF HasChar(change_str, 45) THEN "#EF4444"
    ELSE "#888"

\* fulleco create_composite_image: uc_color and tc_color
uc_color(change) ==
    IF HasChar(change, 43) THEN "#22C55E"
    ELSE IF HasChar(change, 45) THEN "#EF4444"
    ELSE "#888"

\* the colour each compositor gives one change figure
ApplyColours ==
    /\ pc = "start"
    /\ script = "colour"
    /\ \E change \in ChangeFigures :
          /\ response' = <<change>>
          /\ data' = [change_class |-> change_class(change),
                      get_color |-> get_color(change),
                      uc_color |-> uc_color(change)]
    /\ pc' = "done"
    /\ UNCHANGED <<script, attempts, template_file, args, last_post, posts, returned, json_output, fetch_raised,
                   grouped_data, protocols, slots, caption, stdout, exception,
                   logo_requests, browser>>

-----------------------------------------------------------------------------

Scripts ==
    RankingScripts \cup {"ecosystem", "fulleco", "dune"} \cup TableScripts
    \cup {"bnb_burn", "hype", "four_meme", "format", "colour",
          "rankings"}

Init ==
    /\ script \in Scripts
    /\ json_output \in BOOLEAN
    /\ pc = "start"
    /\ fetch_raised = FALSE
    /\ response = <<>>
    /\ grouped_data = <<>>
    /\ protocols = <<>>
    /\ data = <<>>
    /\ slots = <<>>
    /\ caption = <<>>
    /\ stdout = <<>>
    /\ logo_requests = <<>>
    /\ browser = "none"
    /\ attempts = 0
    /\ template_file = "unknown"
    /\ args \in (IF script = "hype" THEN [post : BOOLEAN, force : BOOLEAN]
                 ELSE {[post |-> FALSE, force |-> FALSE]})
    /\ last_post \in (IF script = "hype" THEN LastPostRecords ELSE {None})
    /\ posts = 0
    /\ returned = ""
    /\ exception = ""

Next ==
    \/ FetchRankingData
    \/ RankingFetchFailed
    \/ MergeUsers
    \/ CreateCompositeImage
    \/ RankingOutput
    \/ FetchEcosystemData
    \/ ComposeEcosystem
    \/ EcosystemOutput
    \/ ComposeFulleco
    \/ ApplyFormatters
    \/ ApplyColours
    \/ ScrapeAllRankings
    \/ FullecoRunLogic
    \/ FetchDuneData
    \/ CreateInfographic
    \/ DuneOutput
    \/ ExtractTable
    \/ DappsOutput
    \/ ScrapeBnbBurn
    \/ FetchHypeData
    \/ HypeRunLogic
    \/ FetchFourMemeData
    \/ FourMemeRunLogic

Spec == Init /\ [][Next]_vars

-----------------------------------------------------------------------------
(* Properties of the merge *)

RECURSIVE SumOver(_, _)
SumOver(f, S) ==
    IF S = {} THEN 0
    ELSE LET x == CHOOSE y \in S : TRUE IN f[x] + SumOver(f, S \ {x})

\* the identity key of an input record as the specification states it
IdentityKey(p) == IF p.parentProtocol # NoText THEN p.parentProtocol ELSE p.slug

\* the positions of the records that contribute to the entity of key k
Contributing(k) ==
    {i \in 1..Len(response) : Usable(script, response[i]) /\ IdentityKey(response[i]) = k}

Folded == script \in RankingScripts /\ pc # "start" /\ ~fetch_raised

\* C1: the merge holds at most one entity per identity key (parentProtocol
\* when present, otherwise slug), every entity's key is the key of an input
\* record, and there are at most as many entities as distinct input keys.
C1_OneEntityPerKey ==
    Folded =>
        LET keys == {IdentityKey(response[i]) : i \in 1..Len(response)}
        IN  /\ \A i, j \in 1..Len(grouped_data) :
                  grouped_data[i].key = grouped_data[j].key => i = j
            /\ \A i \in 1..Len(grouped_data) : grouped_data[i].key \in keys
            /\ Len(grouped_data) <= Cardinality(keys)

\* three usable records, two of them with the same key, folded into two entities
C1_Witness ==
    /\ Folded
    /\ Len(response) = 3
    /\ \A i \in 1..3 : Usable(script, response[i])
    /\ Len(grouped_data) = 2

Swap(seq, i, j) ==
    [k \in 1..Len(seq) |-> IF k = i THEN seq[j] ELSE IF k = j THEN seq[i] ELSE seq[k]]

MergedSums(g) == {<<g[i].key, g[i].metric>> : i \in 1..Len(g)}

FirstLargest(k) ==
    CHOOSE i \in Contributing(k) :
        /\ \A j \in Contributing(k) : response[j].metric <= response[i].metric
        /\ \A j \in Contributing(k) :
              response[j].metric = response[i].metric => i <= j

\* C3: name, category and logo of an entity are those of the contributing
\* record with the largest metric; among records with that same largest
\* metric the earliest one is kept (a later equal or smaller record never
\* overwrites), and max_metric is the running maximum.
C3_MetadataOfLargest ==
    Folded =>
        \A i \in 1..Len(grouped_data) :
            LET e == grouped_data[i]
                p == response[FirstLargest(e.key)]
            IN  /\ e.name = DisplayName(script, p)
                /\ e.logo = p.logo
                /\ e.category = p.category
                /\ e.max_metric = p.metric

\* a later record with an equal metric and another name was folded, and a
\* still later, strictly larger one replaced the metadata in another run
C3_Witness ==
    /\ Folded
    /\ Len(response) = 3
    /\ Len(grouped_data) = 1
    /\ Cardinality(Contributing(grouped_data[1].key)) = 3
    /\ response[1].metric = response[2].metric
    /\ response[1].name # response[2].name
    /\ response[3].metric < response[1].metric
    /\ grouped_data[1].name = DisplayName(script, response[1])

-----------------------------------------------------------------------------
(* Properties of the ranking *)

\* run_logic printed a result envelope (not the error envelope)
ResultPrinted ==
    /\ pc = "done"
    /\ json_output
    /\ Len(stdout) = 3
    /\ stdout[2].fields # {"error"}

\* C4: the list a ranking script hands to get_caption_text and puts into
\* the envelope has at most Limit (10) entries.
C4_LeaderboardWithinLimit ==
    (script \in RankingScripts /\ ResultPrinted) =>
        /\ Len(protocols) <= Limit
        /\ Len(stdout[2].data) <= Limit

\* C5: the leaderboard is ordered by the metric, descending, and entities
\* with equal metric are ordered by ascending display name.
C5_TieBreakByName ==
    Folded =>
        \A i, j \in 1..Len(protocols) :
            i < j =>
                \/ protocols[i].metric > protocols[j].metric
                \/ /\ protocols[i].metric = protocols[j].metric
                   /\ ~StrLess(protocols[j].name, protocols[i].name)

\* C6: when the fetch of a ranking or ecosystem run raised, run_logic in
\* JSON mode prints an envelope that has the error field only.
C6_ErrorOnlyOnFailure ==
    ( /\ script \in RankingScripts \cup {"ecosystem"}
      /\ fetch_raised
      /\ json_output
      /\ pc = "done" ) =>
        /\ Len(stdout) = 3
        /\ stdout[2].fields = {"error"}

-----------------------------------------------------------------------------
(* Properties of the cut *)

\* the rows of the page that qualify for a category of the ecosystem script
Qualifying(cat) ==
    SelectSeq(response,
              LAMBDA d : \/ ExactMatch(Lower(FilterText(cat)), d)
                         \/ PartialMatch(Lower(FilterText(cat)), d))

\* the identity keys of the usable records of the response
QualifyingKeys == {IdentityKey(response[i]) :
                     i \in {j \in 1..Len(response) : Usable(script, response[j])}}

\* C7: when fewer than the limit qualify, the result holds exactly the
\* qualifying entities and no placeholder: the top-10 leaderboards and the
\* per-category lists of fetch_ecosystem_data.
C7_NoPadding ==
    /\ (Folded /\ Cardinality(QualifyingKeys) < Limit) =>
          /\ Len(protocols) = Cardinality(QualifyingKeys)
          /\ {protocols[i].key : i \in 1..Len(protocols)} = QualifyingKeys
    /\ (script = "ecosystem" /\ pc = "fetched" /\ ~fetch_raised) =>
          \A cat \in Range(EcoCategories) :
              Len(Qualifying(cat)) < EcoTop =>
                 /\ Len(data[cat]) <= Len(Qualifying(cat))
                 /\ {data[cat][i].name : i \in 1..Len(data[cat])}
                       = {Qualifying(cat)[i].name : i \in 1..Len(Qualifying(cat))}

-----------------------------------------------------------------------------
(* Properties of the exclusion of records without a metric *)

\* the row has one of the volume columns
HasVolume(row) ==
    row.volume # None \/ row.vol # None \/ row.amount # None \/ row.usd # None

\* C8: a record without the ranking metric is left out before the ranking:
\* every leaderboard entry of a ranking script has a record with a metric,
\* and fetch_dune_data has one market for each row that has a volume.
C8_AbsentMetricExcluded ==
    /\ Folded =>
          \A i \in 1..Len(protocols) :
              \E j \in Contributing(protocols[i].key) : response[j].metric # None
    /\ (script = "dune" /\ pc = "fetched" /\ response # <<>>) =>
          Len(data.markets) =
              Cardinality({i \in 1..Len(response) : HasVolume(response[i])})

-----------------------------------------------------------------------------
(* Properties of the compositors *)

\* the slots of one category, in the order they were filled
SlotsOf(cat) == SelectSeq(slots, LAMBDA sl : sl.category = cat)

CategoryComposed ==
    /\ script \in {"ecosystem", "fulleco"}
    /\ pc \in {"composed", "done"}
    /\ DOMAIN data # {}

\* C9: entry i goes to slot i for every i below min(length, slot count);
\* entries at or beyond the slot count are dropped, the slot lookup raises
\* nothing and nothing wraps onto an earlier slot.
C9_SlotPerRank ==
    /\ exception # "IndexError"
    /\ (script \in RankingScripts /\ slots # <<>>) =>
          /\ Len(slots) = Min(Len(protocols), SlotCount)
          /\ \A k \in 1..Len(slots) :
                /\ slots[k].column * ColumnSize + slots[k].row = k - 1
                /\ slots[k].row < ColumnSize
                /\ slots[k].name = protocols[k].name
    /\ CategoryComposed =>
          \A c \in 1..Len(LayoutOrder(script)) :
              LET cat == LayoutOrder(script)[c]
              IN  /\ Len(SlotsOf(cat)) = Min(Len(data[cat]), Centers(script, cat))
                  /\ \A k \in 1..Len(SlotsOf(cat)) :
                        /\ SlotsOf(cat)[k].center = k - 1
                        /\ SlotsOf(cat)[k].name = data[cat][k].name

\* a list of eleven entries was rendered into the ten slots of the
\* two-column template
C9_Witness ==
    /\ script \in RankingScripts
    /\ Len(protocols) > SlotCount
    /\ Len(slots) = SlotCount
    /\ slots[SlotCount].name = protocols[SlotCount].name
    /\ exception = ""
    /\ pc = "done"

-----------------------------------------------------------------------------
(* Properties of the DOM-table extraction *)

Extracted == script \in TableScripts /\ pc # "start" /\ ~fetch_raised

\* the display name a row yields
YieldedName(row) == IF script = "dapps" THEN DappsRowName(row) ELSE row.name

Names(seq) == [i \in 1..Len(seq) |-> seq[i].name]

\* C10 as stated: one record for each row that yields a non-empty display
\* name, none for the other rows, in row order, and no error.
C10_OneRecordPerNamedRow ==
    Extracted =>
        /\ exception = ""
        /\ Names(protocols) =
              [i \in 1..Len(SelectSeq(response, LAMBDA r : YieldedName(r) # NoText))
                  |-> YieldedName(SelectSeq(response,
                                   LAMBDA r : YieldedName(r) # NoText)[i])]

\* the rows the extraction keeps: at least five cells and a usable name
KeptRow(row) ==
    /\ row.cells >= MinCells
    /\ YieldedName(row) # NoText
    /\ IF script = "dapps"
       THEN YieldedName(row) \notin {Unknown, Dashes}
       ELSE Len(YieldedName(row)) >= MinNameLength

\* C10: at most one record per row, in row order, for exactly the rows of
\* at least five cells whose name is usable (dapps: not empty, "Unknown" or
\* "---", and only the first ten such rows; capture: two characters or more);
\* a row without a name is skipped and nothing is raised.
C10_OneRecordPerKeptRow ==
    Extracted =>
        LET kept == SelectSeq(response, KeptRow)
            cut  == IF script = "dapps" THEN Take(kept, DappsLimit) ELSE kept
        IN  /\ exception = ""
            /\ Names(protocols) = [i \in 1..Len(cut) |-> YieldedName(cut[i])]

\* twelve rows of which nine yield a name gave nine records
C10_Witness ==
    /\ Extracted
    /\ Len(response) = 12
    /\ Cardinality({i \in 1..12 : YieldedName(response[i]) = NoText}) = 3
    /\ Len(protocols) = 9

-----------------------------------------------------------------------------
(* Properties of the logo resolution *)

\* the leaderboard as the fetch returned it
Ranked == FetchResult(script, response)

\* create_composite_image ran to its end on the list of a ranking script
Composed == script \in RankingScripts /\ slots # <<>>

\* the request for the logo of entry k failed
LogoFailed(k) ==
    /\ "logoBase64" \in DOMAIN protocols[k]
    /\ protocols[k].logo # NoText
    /\ protocols[k].logoBase64 # DataUri(protocols[k].logo)

NameAndMetric(seq) ==
    [i \in 1..Len(seq) |-> [name |-> seq[i].name, metric |-> seq[i].metric]]

\* the part of the statement that every version shares: the resolver raises
\* nothing (only the rendering steps can), a failed fetch yields the empty
\* asset, and order, metrics and caption are those of the ranked list
LogoFailureHarmless ==
    LET ranked == Ranked
    IN  /\ exception \in {"", "RenderError"}
        /\ \A k \in 1..Len(slots) :
              LogoFailed(k) => protocols[k].logoBase64 = NoText
        /\ NameAndMetric(slots) = NameAndMetric(Take(ranked, SlotCount))
        /\ NameAndMetric(protocols) = NameAndMetric(ranked)
        /\ caption # <<>> => caption = CaptionItems(ranked)

\* C11 as stated: whatever the outcome of a logo fetch, the resolver returns
\* the empty asset, the entity is rendered with the empty asset, and order,
\* metrics and caption are those of a run whose fetch succeeded.
C11_RenderedWithEmptyAsset ==
    Composed =>
        /\ LogoFailureHarmless
        /\ \A k \in 1..Len(slots) : LogoFailed(k) => slots[k].img = NoText

\* C11: whatever the outcome of a logo fetch, the resolver returns the empty
\* asset and raises nothing, the entity is rendered with its logo URL in
\* place of the embedded image, and order, metrics and caption are those of
\* a run whose fetch succeeded.
C11_FailedLogoFallsBackToUrl ==
    Composed =>
        /\ LogoFailureHarmless
        /\ \A k \in 1..Len(slots) :
              LogoFailed(k) => slots[k].img = protocols[k].logo

\* the revenue run printed its result after a logo fetch had failed
C11_Witness ==
    /\ Composed
    /\ script = "revenue"
    /\ pc = "done"
    /\ caption # <<>>
    /\ \E k \in 1..Len(slots) : LogoFailed(k) /\ slots[k].img = protocols[k].logo

-----------------------------------------------------------------------------
(* Properties of the browser scope and of the rendering step *)

C13_EnvelopeAlways ==
    ( /\ script \in {"revenue", "four_meme"}
      /\ json_output
      /\ ~fetch_raised
      /\ pc = "done" ) =>
        stdout # <<>>

-----------------------------------------------------------------------------
(* Identity by normalized name *)

\* a display name case-folded and with its spaces taken out
NormalizedName(s, p) == RemoveSpaces(Lower(DisplayName(s, p)))

UsableRecords == {i \in 1..Len(response) : Usable(script, response[i])}

\* the identity key with the fallback to the normalized display name for a
\* record that names no parent entity
NameFallbackKey(s, p) ==
    IF p.parentProtocol # NoText THEN p.parentProtocol
    ELSE <<"name">> \o NormalizedName(s, p)

\* C14: records without a group key whose display names differ only in
\* casing and spacing are folded into one entity: the merge holds at most
\* as many entities as the usable records have distinct keys, the key of
\* a record without a parent being its normalized display name.
C14_SameNormalizedNameFolded ==
    Folded =>
        Len(grouped_data) <=
            Cardinality({NameFallbackKey(script, response[i]) : i \in UsableRecords})

\* the key of a record as the merge is said to derive it: parentProtocol,
\* else slug, else the normalized display name
KeyOrNameFallback(s, p) ==
    IF GroupKey(p) # NoText THEN GroupKey(p)
    ELSE <<"name">> \o NormalizedName(s, p)

\* C15: two records are folded into one entity only if they have the same
\* group key or the same fallback key, also when both lack parentProtocol
\* and slug: the merge holds at least as many entities as the usable
\* records have distinct keys.
C15_DistinctNamesKeptApart ==
    Folded =>
        Len(grouped_data) >=
            Cardinality({KeyOrNameFallback(script, response[i]) : i \in UsableRecords})

-----------------------------------------------------------------------------
(* Fields that are not summed *)

\* the first record, in input order, that was folded for key k
FirstContributing(k) ==
    CHOOSE i \in Contributing(k) : \A j \in Contributing(k) : i <= j

\* C16 as stated: the change figure and the slug of an entity are those of
\* the first record folded for its key, whatever the later records carry.
C16_FirstWins ==
    Folded =>
        \A i \in 1..Len(grouped_data) :
            LET e == grouped_data[i]
                p == response[FirstContributing(e.key)]
            IN  /\ e.change = p.change
                /\ script = "prediction" => e.slug = p.slug

\* C16: the slug of an entity is that of the first record folded for its
\* key and no later record changes it; the change figure is that of the
\* first record carrying the largest metric of the key, so a later record
\* with a strictly larger metric replaces it.  The entities are compared
\* in the state the fetch leaves.
C16_SlugFirstChangeOfLargest ==
    (Folded /\ pc = "fetched") =>
        \A i \in 1..Len(grouped_data) :
            LET e == grouped_data[i]
            IN  /\ e.change = response[FirstLargest(e.key)].change
                /\ script = "prediction" =>
                       e.slug = response[FirstContributing(e.key)].slug

\* two records of one parent, the later one larger and of another slug:
\* the entity has the slug of the first and the change of the second
C16_Witness ==
    /\ Folded
    /\ script = "prediction"
    /\ Len(response) = 2
    /\ Len(grouped_data) = 1
    /\ Contributing(grouped_data[1].key) = {1, 2}
    /\ response[2].metric > response[1].metric
    /\ response[1].slug # response[2].slug
    /\ grouped_data[1].slug = response[1].slug
    /\ grouped_data[1].change = response[2].change
    /\ response[1].change # response[2].change

-----------------------------------------------------------------------------
(* Logo requests of one run *)

\* C17: within one run no logo reference is requested twice: the requests
\* the resolver has issued are pairwise distinct.
C17_OneFetchPerLogoRef ==
    \A i, j \in 1..Len(logo_requests) :
        logo_requests[i] = logo_requests[j] => i = j

-----------------------------------------------------------------------------
(* Failing source requests *)

\* C18: a ranking fetch whose request failed has given up only after it
\* retried: it sent more than one request before it returned the empty
\* list, and no exception left the call.
C18_RetriedBeforeGivingUp ==
    (script \in RankingScripts /\ fetch_raised) =>
        /\ attempts > 1
        /\ protocols = <<>>
        /\ exception = ""

-----------------------------------------------------------------------------
(* Metrics the source did not report *)

\* the row reports the number zero in one of the columns
ReportsZero(row, columns) == \E c \in columns : row[c] = 0

\* C19: an adapter never records zero for a metric the source did not
\* report: a Dune market has volume (users) zero only if a row reports a
\* zero volume (users) column, a four.meme token of an item without market
\* cap or holders does not show "$0" or "0", and no ranking entry has the
\* metric zero.
C19_AbsentNotZero ==
    /\ (script = "dune" /\ pc = "fetched" /\ response # <<>>) =>
          \A i \in 1..Len(data.markets) :
              /\ data.markets[i].volume = 0 =>
                    \E j \in 1..Len(response) :
                        ReportsZero(response[j], {"volume", "vol", "amount", "usd"})
              /\ data.markets[i].users = 0 =>
                    \E j \in 1..Len(response) :
                        ReportsZero(response[j],
                                    {"users", "active_users", "traders", "count"})
    /\ (script = "four_meme" /\ pc = "fetched" /\ ~fetch_raised) =>
          \A i \in 1..Len(protocols) :
              /\ response[i].marketCap = None =>
                    protocols[i].mcap # <<36>> \o Digits(0)
              /\ response[i].holders = None =>
                    protocols[i].holders # Digits(0)
    /\ Folded => \A i \in 1..Len(grouped_data) : grouped_data[i].metric # 0

-----------------------------------------------------------------------------
(* The leaderboard after its creation *)

\* C20: no step after the ranker adds, removes or changes a field of a
\* leaderboard entity: at every later point of the run the list the script
\* holds has the length of the ranker's list, and each entity has the
\* fields and the values the ranker gave it.
C20_LeaderboardFrozen ==
    (script \in RankingScripts /\ pc # "start") =>
        LET ranked == Ranked
        IN  /\ Len(protocols) = Len(ranked)
            /\ \A i \in 1..Len(protocols) :
                  /\ DOMAIN protocols[i] = DOMAIN ranked[i]
                  /\ protocols[i] = ranked[i]

-----------------------------------------------------------------------------
(* Properties of the caption *)

\* the caption items of one category
CaptionOf(cat) == SelectSeq(caption, LAMBDA it : it.category = cat)

\* C21: a leaderboard of k <= 10 entities gives a caption of exactly k
\* items, numbered 1..k in leaderboard order, one per entity: the caption
\* of a ranking script for its list, the caption of the ecosystem script
\* for the list of each category it names, and the caption of the fulleco
\* script for the list of each category.
C21_CaptionListsEveryEntity ==
    /\ (script \in RankingScripts /\ caption # <<>> /\ Len(protocols) <= Limit) =>
          /\ Len(caption) = Len(protocols)
          /\ \A i \in 1..Len(caption) :
                caption[i].number = i /\ caption[i].name = protocols[i].name
    /\ (script = "ecosystem" /\ pc = "done") =>
          \A c \in 1..Len(caption) :
              caption[c].names = Names(data[caption[c].category])
    /\ (script = "fulleco" /\ pc = "printed") =>
          \A k \in 1..Len(FullecoCategories) :
              LET cat == FullecoCategories[k]
              IN  /\ Len(CaptionOf(cat)) = Len(data[cat])
                  /\ \A i \in 1..Len(CaptionOf(cat)) :
                        /\ CaptionOf(cat)[i].number = i
                        /\ CaptionOf(cat)[i].name = data[cat][i].name

-----------------------------------------------------------------------------
(* A missing template *)

\* C22: a run whose template file is absent is aborted before any network
\* activity: when the template was found absent, no source request has
\* been sent, no page has been opened in a browser and no logo has been
\* requested, and the run has composed nothing.
C22_NoNetworkWithoutTemplate ==
    template_file = "absent" =>
        /\ attempts = 0
        /\ logo_requests = <<>>
        /\ browser = "none"
        /\ slots = <<>>

-----------------------------------------------------------------------------
(* Properties of the number formatters *)

\* C23: every formatter selects the same unit for the same value, and a
\* value of one billion or more is abbreviated with B by each of them.
C23_SameUnitLadder ==
    (script = "format" /\ pc = "done") =>
        /\ \A f, g \in Formatters : data[f].unit = data[g].unit
        /\ (response[1] # None /\ response[1] >= Billion) =>
              \A f \in Formatters : data[f].unit = "B"

-----------------------------------------------------------------------------
(* Properties of the last-post record *)

\* C24: the last-post time is written only after a post that succeeded:
\* a record that holds the time of the run belongs to a run that made its
\* post, was not in JSON mode, had fetched tokens, was not skipped by the
\* rate limit and returned True; without a post the record is one of the
\* records the run can start with.
C24_WrittenOnlyAfterPost ==
    script = "hype" =>
        /\ last_post = Now =>
              /\ posts = 1
              /\ ~json_output
              /\ protocols # <<>>
              /\ returned = "True"
        /\ posts = 0 => last_post \in LastPostRecords

\* a posting run that was not skipped made its post and wrote the time
C24_Witness ==
    /\ script = "hype"
    /\ args.post
    /\ pc = "done"
    /\ posts = 1
    /\ last_post = Now
    /\ returned = "True"

-----------------------------------------------------------------------------
(* Properties of the two-column placement *)

TwoColumnComposed == script \in RankingScripts \cup {"hype"} /\ slots # <<>>

\* C25: every rendered rank i in 0..9 of a two-column template is placed
\* in column i div 5 and row i mod 5, so the row is within 0..4, and two
\* distinct ranks never get the same (column, row) slot.
C25_ColumnAndRowOfRank ==
    TwoColumnComposed =>
        /\ \A k \in 1..Len(slots) :
              /\ slots[k].rank = k - 1
              /\ slots[k].rank \in 0..(2 * ColumnSize - 1)
              /\ slots[k].column = slots[k].rank \div ColumnSize
              /\ slots[k].row = slots[k].rank % ColumnSize
              /\ slots[k].row \in 0..(ColumnSize - 1)
        /\ \A j, k \in 1..Len(slots) :
              (slots[j].column = slots[k].column /\ slots[j].row = slots[k].row)
                  => j = k

\* eleven tokens were rendered by the social hype compositor: the tenth
\* is in the last row of the right column
C25_Witness ==
    /\ script = "hype"
    /\ Len(protocols) > SlotCount
    /\ Len(slots) = SlotCount
    /\ slots[SlotCount].column = 1
    /\ slots[SlotCount].row = ColumnSize - 1
    /\ slots[ColumnSize].column = 0

-----------------------------------------------------------------------------
(* Properties of the colour of a change figure *)

\* the sign of the change a figure shows: a fall is a minus sign (U+002D or
\* U+2212) before a number that is not zero
SignOf(change) ==
    LET digits == SelectSeq(change, LAMBDA c : c \in 48..57)
    IN  IF Len(digits) = 0 THEN "none"
        ELSE IF \A i \in 1..Len(digits) : digits[i] = 48 THEN "zero"
        ELSE IF change[1] \in {45, 8722} THEN "negative"
        ELSE "positive"

NegativeColour == [change_class |-> "negative", get_color |-> "#EF4444",
                   uc_color |-> "#EF4444"]

ColourBy(compositor, change) ==
    IF compositor = "change_class" THEN change_class(change)
    ELSE IF compositor = "get_color" THEN get_color(change)
    ELSE uc_color(change)

\* C26: the colour of a change figure is a function of its sign only: in
\* every compositor a negative change gets the negative colour, a change
\* that is not negative does not, and two figures of the same sign get the
\* same colour (the figures without a number have no sign and are left
\* out); the entities the compositor reads carry no colour.
C26_ColourBySign ==
    /\ (script = "colour" /\ pc = "done" /\ SignOf(response[1]) # "none") =>
          LET change == response[1]
          IN  \A compositor \in DOMAIN data :
                /\ SignOf(change) = "negative"
                      <=> data[compositor] = NegativeColour[compositor]
                /\ \A other \in ChangeFigures :
                      SignOf(other) = SignOf(change)
                          => ColourBy(compositor, other) = data[compositor]
    /\ (script = "ecosystem" /\ pc = "done" /\ ~NotData(data)) =>
          \A cat \in DOMAIN data : \A i \in 1..Len(data[cat]) :
              DOMAIN data[cat][i] =
                  {"name", "users", "uc", "txs", "tc", "logoBase64"}

-----------------------------------------------------------------------------
(* Framing of the JSON output *)

\* the scripts whose run_logic prints the payload inside a try block
FramedScripts == {"fees", "dapps", "hype", "dune"}

\* one start marker, one JSON payload, one end marker
WellFramed(out) ==
    /\ Len(out) = 3
    /\ out[1] = JsonStart
    /\ out[2].line = "json"
    /\ out[3] = JsonEnd

\* C27: in JSON mode whatever a finished run_logic invocation of the fees,
\* dapps, social hype and Dune scripts has printed is exactly one start
\* marker, one JSON payload and one end marker, on the failure paths too.
C27_OutputWellFramed ==
    (script \in FramedScripts /\ json_output /\ pc = "done" /\ stdout # <<>>) =>
        WellFramed(stdout)

-----------------------------------------------------------------------------
(* The 24-hour check of the social hype script *)

\* the recorded last post is less than 24 hours before now
PostedRecently ==
    /\ last_post # None
    /\ last_post <= Now
    /\ Now - last_post < RateLimitHours

\* C28: the first step of run_logic with post=True and force=False and a
\* last post recorded less than 24 hours before now returns False without
\* fetching, rendering or posting and leaves the record as it is; with
\* force=True, or without a readable record, the first step is not the
\* skip.
C28_SkippedWithinADay ==
    [][ (script = "hype" /\ pc = "start") =>
          /\ (args.post /\ ~args.force /\ PostedRecently) =>
                /\ returned' = "False"
                /\ pc' = "done"
                /\ UNCHANGED <<last_post, posts, browser, fetch_raised,
                               protocols, slots, caption, stdout>>
          /\ (args.force \/ last_post = None) => returned' # "False" ]_vars

\* a posting run skipped 23 hours after the last post, and nothing fetched
C28_Witness ==
    /\ script = "hype"
    /\ pc = "done"
    /\ args.post /\ ~args.force
    /\ last_post = Now - (RateLimitHours - 1)
    /\ returned = "False"
    /\ browser = "none"
    /\ posts = 0

-----------------------------------------------------------------------------
(* Properties of scrape_all_rankings *)

RankingsBuilt == script = "rankings" /\ pc = "done" /\ exception = ""

\* C29: the result of scrape_all_rankings has no two dapps of one name,
\* holds for each name the occurrence scraped first, has totalCount equal
\* to the number of dapps, and is in ascending rank order, so that a dapp
\* of a later page never precedes a first-page dapp whose displayed rank
\* is smaller.
C29_UniqueRankedResult ==
    RankingsBuilt =>
        LET all_dapps == scrape_all_pages(response)
        IN  /\ \A j, k \in 1..Len(protocols) :
                  protocols[j].name = protocols[k].name => j = k
            /\ \A k \in 1..Len(protocols) :
                  \E i \in 1..Len(all_dapps) :
                      /\ all_dapps[i] = protocols[k]
                      /\ \A h \in 1..(i - 1) :
                            all_dapps[h].name # protocols[k].name
            /\ data.totalCount = Len(protocols)
            /\ \A j, k \in 1..Len(protocols) :
                  j < k => protocols[j].rank <= protocols[k].rank
            /\ \A j, k \in 1..Len(protocols) :
                  ( /\ j < k
                    /\ protocols[j].row[1] > 1
                    /\ protocols[k].row[1] = 1 )
                  => DisplayedRank(response, protocols[j].row[1],
                                   protocols[j].row[2])
                       < DisplayedRank(response, 1, protocols[k].row[2])

-----------------------------------------------------------------------------
(* Properties of fetch_dune_data *)

DuneFetched == script = "dune" /\ pc = "fetched"

\* the number of entries of a list that equal m
Occurrences(seq, m) == Cardinality({i \in 1..Len(seq) : seq[i] = m})

=============================================================================
